---- MODULE Spec2Model ----
(***************************************************************************)
(* Model of the MagicBricks scraper (src/src/scrapers/magicbricks_scraper  *)
(* .py): the fetch/retry engine fetch_page, the per-city worker            *)
(* scrape_single_city_task, the append-only output files and the parallel  *)
(* orchestrator scrape_infinite_parallel.                                  *)
(* Also the sequential scrape_infinite, and the service of                 *)
(* src/src/railway/main.py that runs the scraper, retrains and reloads.    *)
(***************************************************************************)
EXTENDS Integers, Sequences, FiniteSets, TLC

(***************************************************************************)
(* Program constants and bounds                                            *)
(***************************************************************************)
\* fetch_page: MAX_RETRIES = 4
MAX_RETRIES == 4
\* Size threshold of the specification's classifier rule 3 (the source has
\* no such constant); body lengths are scaled to 0..MaxBodyLen.
MIN_LISTING_SIZE == 2
\* Longest response body (scaled).
MaxBodyLen == 2
\* Number of fetch_page calls one scraper makes in FetchSpec.
MaxCalls == 2
\* Number of listings of the site.
NumUrls == 3
\* Number of cities (the source lists ten in CITIES).
NumCities == 2
\* Largest max_pages and longest listing page of WorkerSpec.
MaxPages == 2
MaxLinks == 3
\* Largest max_pages, longest listing page and number of listings of Spec.
ParPages == 1
ParLinks == 1
ParUrls == 1
\* Most Session replacements of one scraper, and most failing opens of an
\* output file, in a run of WorkerSpec or Spec.
MaxRotations == 1
MaxIoFailures == 1
MaxValue == 2
\* Number of jobs the service takes up (startup, weekly updates, admin
\* calls let in), and number of records one scraper run appends.
MaxJobs == 3
MaxRunRecords == 1
\* all_links[:100]
LINK_CAP == 100
\* max_workers: the default, and the value the service passes.
DEFAULT_WORKERS == 1
SERVICE_WORKERS == 2

(***************************************************************************)
(* Responses and the outcome of one session.get                            *)
(***************************************************************************)
\* An href of a listing page: 0 is an empty href, u in 1..NumUrls the
\* relative link to listing u, NumUrls + 1 the absolute link to listing 1.
Hrefs == 0..(NumUrls + 1)

\* url = 'https://www.magicbricks.com' + url unless it starts with 'http':
\* both forms of a link give the URL of the listing, named by its number.
NormalizeUrl(h) == IF h > NumUrls THEN h - NumUrls ELSE h

\* A response body: its length, whether it holds a challenge keyword, and
\* the hrefs of its property links in document order.
Body(n, k, l) == [len |-> n, kw |-> k, links |-> l]
EmptyBody == Body(0, FALSE, <<>>)

\* Bodies without links, of every length; a body that holds a keyword is
\* not empty.
Bodies ==
    {b \in {Body(n, k, <<>>) : n \in 0..MaxBodyLen, k \in BOOLEAN} : b.kw => b.len > 0}

\* Does the body hold one of the specification's soft-block keywords (the
\* source has no such list and never searches a body).
HasSoftBlockKeyword(b) == b.kw

\* Sequences over S of length at most n.
SeqsUpTo(S, n) == UNION {[1..k -> S] : k \in 0..n}

\* The hrefs that lead to the listings 1..n.
HrefsTo(n) == {h \in Hrefs : NormalizeUrl(h) <= n}

\* Listing pages: the empty body, a challenge page, and pages holding up
\* to maxLinks property links to the listings 1..n.
PageBodies(n, maxLinks) ==
    {EmptyBody, Body(MaxBodyLen, TRUE, <<>>)}
    \cup {Body(MaxBodyLen, FALSE, l) : l \in SeqsUpTo(HrefsTo(n), maxLinks)}

\* Status codes: the three the code handles and one it does not.
Statuses == {200, 403, 429, 404}

\* What one session.get(...) can do: return a response (a 200 with one of
\* the bodies B), or raise Timeout, ConnectionError, or another exception.
Outcomes(B) ==
    [kind : {"resp"}, status : {200}, body : B]
    \cup [kind : {"resp"}, status : Statuses \ {200}, body : {EmptyBody}]
    \cup [kind : {"timeout", "connerr", "exception"}, status : {0}, body : {EmptyBody}]

\* Outcome of the homepage request of _warm_up.
WarmOutcomes == {"ok", "status", "exception"}

\* Optional[str] returned by fetch_page.
None == [isNone |-> TRUE, body |-> EmptyBody]
Text(b) == [isNone |-> FALSE, body |-> b]
\* Python truthiness of an Optional[str]: None and "" are falsy.
Truthy(r) == ~r.isNone /\ r.body.len > 0

(***************************************************************************)
(* The scraper's network identity: self.session and self._warmed_up.       *)
(* session counts the _make_session calls of the instance, so two values   *)
(* are equal exactly when they are the same Session object; warmHits       *)
(* counts the homepage requests sent through the current Session.          *)
(***************************************************************************)
NewIdentity == [session |-> 1, warmed |-> FALSE, warmHits |-> 0]

MakeSession_KeepsFlag(id) == [session |-> id.session + 1, warmed |-> id.warmed, warmHits |-> 0]

\* self.session = self._make_session(); self._warmed_up = False
MakeSession(id) == [session |-> id.session + 1, warmed |-> FALSE, warmHits |-> 0]

WarmUp_Always(id, wo) == [id EXCEPT !.warmed = TRUE, !.warmHits = @ + 1]
WarmUp_FailedStaysCold(id, wo) == IF id.warmed THEN id ELSE [id EXCEPT !.warmed = (wo = "ok"), !.warmHits = @ + 1]
\* _warm_up: returns at once when warmed; otherwise one homepage request,
\* and _warmed_up = True on the normal path and in the except branch.
WarmUp(id, wo) ==
    IF id.warmed THEN id
    ELSE [id EXCEPT !.warmed = TRUE, !.warmHits = @ + 1]

\* The outcome of the warm-up request of the Session of identity after,
\* when a step took the identity from before to after: wo if the step sent
\* a homepage request through it, "none" if the Session is new and got no
\* request, and what it was (prev) otherwise.
WarmOutcomeAfter(before, after, wo, prev) ==
    IF after.session # before.session
    THEN IF after.warmHits > 0 THEN wo ELSE "none"
    ELSE IF after.warmHits > before.warmHits THEN wo ELSE prev

RotatesOn403_Any(n) == n >= 1
RotatesOn403_Late(n) == n >= 3
RotatesOn403_Eq(n) == n = 2
\* Recreating the session happens only on a 403 at attempt >= 2.
RotatesOn403(n) == n >= 2

\* What one iteration of the retry loop does: the identity afterwards,
\* ctl ("return": the function returns ret; "continue": the iteration ends
\* and the for loop goes on), and pause, the backoff sleep of the branch
\* ("block" after a 403, "rate" after a 429, "net" after a network error,
\* "none" where the branch does not sleep).
Step(id, ctl, ret, pause) == [id |-> id, ctl |-> ctl, ret |-> ret, pause |-> pause]

OnRateLimited_Rotate(id) == Step(MakeSession(id), "continue", None, "rate")
\* elif response.status_code == 429: time.sleep(backoff)
OnRateLimited(id) == Step(id, "continue", None, "rate")

OnUnexpectedStatus_Retry(id) == Step(id, "continue", None, "none")
\* else: logger.error("Unexpected status"); return None
OnUnexpectedStatus(id) == Step(id, "return", None, "none")

\* except Timeout / except ConnectionError: time.sleep(...)
OnNetworkError(id) == Step(id, "continue", None, "net")

\* One iteration of the retry loop of fetch_page, given what session.get
\* did.
FetchIter(id, n, o, wo) ==
    IF o.kind = "resp" THEN
        IF o.status = 200 THEN Step(id, "return", Text(o.body), "none")
        ELSE IF o.status = 403 THEN
            IF n < MAX_RETRIES THEN
                Step(IF RotatesOn403(n) THEN WarmUp(MakeSession(id), wo) ELSE id,
                     "continue", None, "block")
            ELSE Step(id, "return", None, "none")
        ELSE IF o.status = 429 THEN OnRateLimited(id)
        ELSE OnUnexpectedStatus(id)
    ELSE IF o.kind \in {"timeout", "connerr"} THEN OnNetworkError(id)
    ELSE Step(id, "return", None, "none")

LoopGoesOn_OffByOne(n) == n <= MAX_RETRIES
\* for attempt in range(1, MAX_RETRIES + 1): is there a next iteration?
LoopGoesOn(n) == n < MAX_RETRIES

(***************************************************************************)
(* State.  Scraper instances are named by the city whose task made them.   *)
(***************************************************************************)
Cities == 1..NumCities
\* The scraper of FetchSpec, the city of WorkerSpec, and the one scraper of
\* scrape_infinite.
Me == 1

VARIABLES
    \* one MagicBricksInfiniteScraper per task
    ident,            \* self.session and self._warmed_up
    seen_urls,        \* self.seen_urls
    file_lock,        \* self.file_lock: is the instance's Lock held
    \* the fetch_page call of each scraper
    fpc,              \* "idle", "loop" or "returned"
    attempt,          \* the loop variable
    is_detail,        \* the is_detail argument
    result,           \* the value returned
    \* scrape_single_city_task
    wpc,              \* where the task is
    page,             \* loop variable of phase 1
    city_properties,  \* the accumulated records
    idx,              \* loop variable of phase 2
    merged,           \* the record being saved
    file_exists,      \* local of append_property_csv
    properties_saved, \* the running count
    \* the output files
    jsonl_file,       \* magicbricks_all_cities.jsonl
    csv_file,         \* magicbricks_all_cities.csv
    io_failures,      \* number of opens of an output file that have failed
    \* scrape_infinite_parallel
    opc,              \* where the orchestrator is
    max_pages, enable_details, max_workers,   \* its arguments
    futures,          \* the cities submitted to the pool, in order
    handled,          \* the futures as_completed has yielded
    city_results,     \* the summary
    total_properties, \* the total
    \* record of one scraper's fetch_page calls (FetchSpec)
    calls,            \* number of fetch_page calls made
    hist,             \* outcomes of the attempts of the current call
    sessAt,           \* the identity each attempt went through
    warm_outcome,     \* outcome of the current Session's warm-up request
    sess_uas,         \* the user agents sent through the current Session
    warm_reqs,        \* the requests the current Session's warm-up has sent
    \* record of the listing pages each task has been handed
    page_log,         \* per page: its distinct URLs, its number of links
    fetch_log,        \* per listing fetch_page call: the page and how it went
    detail_res,       \* how the detail fetch of the record being saved went
    req_log,          \* which thread has sent a request through which Session
    \* the merge of one record with its detail fields, key by key (MergeSpec)
    prop_fields,      \* prop: the listing record
    detail_fields,    \* detail: what extract_property_detail returned
    merged_fields,    \* merged: {**prop, **detail}
    \* the service of railway/main.py (ServiceSpec)
    model_rf, le_location, le_ptype, market_data, last_update_time,  \* its globals
    model_pkl,        \* MODEL_DIR / "price_predictor_rf.pkl"
    encoders_pkl,     \* MODEL_DIR / "encoders.pkl"
    spc,              \* where each thread of the service is
    rv,               \* what the function a thread called last has returned
    job,              \* the number of the job a thread is working on
    njobs,            \* the jobs started so far
    assigned,         \* the globals a thread's run_model_retraining call has assigned
    trace,            \* what the weekly job has done, in order
    admin_req         \* the last call of an admin endpoint and its answer

svars == <<ident, seen_urls, file_lock>>
fvars == <<fpc, attempt, is_detail, result>>
wvars == <<wpc, page, city_properties, idx, merged, file_exists, properties_saved>>
filevars == <<jsonl_file, csv_file, io_failures>>
argvars == <<max_pages, enable_details, max_workers>>
ovars == <<opc, futures, handled, city_results, total_properties>>
fhvars == <<calls, hist, sessAt, warm_outcome, sess_uas, warm_reqs>>
pvars == <<page_log, fetch_log>>
thvars == <<pvars, detail_res, req_log>>
mvars == <<prop_fields, detail_fields, merged_fields>>
hvars == <<fhvars, thvars, mvars>>
gvars == <<model_rf, le_location, le_ptype, market_data, last_update_time>>
diskvars == <<model_pkl, encoders_pkl>>
tvars == <<spc, rv, job, njobs>>
svcvars == <<gvars, diskvars, tvars, assigned, trace, admin_req>>

vars == <<svars, fvars, wvars, filevars, argvars, ovars, hvars, svcvars>>

\* A record of the accumulated list and of the output: the listing URL and
\* whether the fields of its detail page were merged in.
Rec(u, d) == [url |-> u, det |-> d]
NoRec == Rec(0, FALSE)

\* What a dict holds for a key it does not have.
Absent == 0
\* A local that has not been assigned.
Unset == <<>>

\* A file that does not exist, and one that exists with the given writes.
NoFile == [exists |-> FALSE, data |-> <<>>]

(***************************************************************************)
(* fetch_page, called by the thread working on city w                      *)
(***************************************************************************)
\* scrape_infinite is running: the values of opc in the sequential run.
Sequential == opc \in {"seq_clear", "seq_cities", "seq_stats", "seq_returned", "seq_raised"}

ScraperOf_Shared(w) == Me

\* The scraper instance the code working on city w uses: the task of w
\* constructs its own (line 463), scrape_infinite has one for all the
\* cities (line 634).
ScraperOf(w) == IF Sequential THEN Me ELSE w

\* A request: the Session, as the scraper and the number of its
\* _make_session call, and the thread that sent it.
Req(s, n, w) == [scraper |-> s, session |-> n, worker |-> w]

\* The requests of thread w in a step that takes the identity of its
\* scraper from before to after: the real attempt, if the step makes one,
\* through the Session before, and the warm-up request, if any, through the
\* Session after.
RequestsOf(w, before, after, real) ==
    (IF real THEN {Req(ScraperOf(w), before.session, w)} ELSE {})
    \cup (IF /\ after.warmHits > 0
             /\ \/ after.session # before.session
                \/ after.warmHits > before.warmHits
          THEN {Req(ScraperOf(w), after.session, w)}
          ELSE {})

\* The step's requests are noted.
Note(w, real) ==
    req_log' = req_log \cup RequestsOf(w, ident[ScraperOf(w)], ident'[ScraperOf(w)], real)

\* Entry of fetch_page: warm up, then enter the loop with attempt = 1.
EnterFetch(w, d, wo) ==
    /\ fpc[w] = "idle"
    /\ ident' = [ident EXCEPT ![ScraperOf(w)] = WarmUp(@, wo)]
    /\ fpc' = [fpc EXCEPT ![w] = "loop"]
    /\ attempt' = [attempt EXCEPT ![w] = 1]
    /\ is_detail' = [is_detail EXCEPT ![w] = d]
    /\ UNCHANGED result

\* One iteration of the loop, for the request's outcome o: the identity
\* afterwards, whether fetch_page returns now (from the iteration, or at
\* line 268 because the loop is over), and with which value.
Iteration(w, o, wo) ==
    LET r == FetchIter(ident[ScraperOf(w)], attempt[w], o, wo) IN
    [id |-> r.id,
     returns |-> r.ctl = "return" \/ ~LoopGoesOn(attempt[w]),
     ret |-> r.ret,
     pause |-> r.pause]

\* The iteration, as a step of scraper w that stops where fetch_page has
\* returned and the caller has not yet looked at the value.
Attempt(w, o, wo) ==
    /\ fpc[w] = "loop"
    /\ LET it == Iteration(w, o, wo) IN
       /\ ident' = [ident EXCEPT ![ScraperOf(w)] = it.id]
       /\ IF it.returns
            THEN /\ fpc' = [fpc EXCEPT ![w] = "returned"]
                 /\ result' = [result EXCEPT ![w] = it.ret]
                 /\ UNCHANGED attempt
            ELSE /\ attempt' = [attempt EXCEPT ![w] = @ + 1]
                 /\ UNCHANGED <<fpc, result>>
    /\ UNCHANGED is_detail

\* fetch_page is over: its frame is gone.
EndFetch(w) ==
    /\ fpc' = [fpc EXCEPT ![w] = "idle"]
    /\ attempt' = [attempt EXCEPT ![w] = 0]
    /\ is_detail' = [is_detail EXCEPT ![w] = FALSE]
    /\ result' = [result EXCEPT ![w] = None]

\* The caller has taken the result.
LeaveFetch(w) ==
    /\ fpc[w] = "returned"
    /\ EndFetch(w)

(***************************************************************************)
(* Initial values shared by the specifications                             *)
(***************************************************************************)
ScrapersInit ==
    /\ ident = [w \in Cities |-> NewIdentity]
    /\ seen_urls = [w \in Cities |-> {}]
    /\ file_lock = [w \in Cities |-> FALSE]
    /\ fpc = [w \in Cities |-> "idle"]
    /\ attempt = [w \in Cities |-> 0]
    /\ is_detail = [w \in Cities |-> FALSE]
    /\ result = [w \in Cities |-> None]

TasksInit ==
    /\ wpc = [w \in Cities |-> "unsubmitted"]
    /\ page = [w \in Cities |-> 0]
    /\ city_properties = [w \in Cities |-> <<>>]
    /\ idx = [w \in Cities |-> 0]
    /\ merged = [w \in Cities |-> NoRec]
    /\ file_exists = [w \in Cities |-> FALSE]
    /\ properties_saved = [w \in Cities |-> 0]

HistInit ==
    /\ calls = 0
    /\ hist = <<>>
    /\ sessAt = <<>>
    /\ warm_outcome = "none"
    /\ sess_uas = {}
    /\ warm_reqs = <<>>
    /\ page_log = [w \in Cities |-> <<>>]
    /\ fetch_log = [w \in Cities |-> <<>>]
    /\ detail_res = [w \in Cities |-> "none"]
    /\ req_log = {}

\* The threads of the service: the startup handler, the scheduler's thread
\* in scheduled_weekly_update, and a request thread in each of the two
\* admin endpoints.
Threads == {"startup", "weekly", "trigger", "retrain"}

\* None, as the value of a global of the service and as the content of a
\* file that does not exist; any other value is the number of the job
\* that made the object.
Nothing == 0

\* model_rf: None, or a RandomForestRegressor, which predicts once it is fitted.
NoModel == [gen |-> Nothing, fitted |-> FALSE]

\* No call of an admin endpoint has been made.
NoRequest == [endpoint |-> "none", key |-> "none", status |-> 0]

\* The module has been imported: the globals are None, no thread runs.
ServiceIdle ==
    /\ model_rf = NoModel
    /\ le_location = Nothing
    /\ le_ptype = Nothing
    /\ market_data = Nothing
    /\ last_update_time = Nothing
    /\ spc = [t \in Threads |-> "idle"]
    /\ rv = [t \in Threads |-> "none"]
    /\ job = [t \in Threads |-> 0]
    /\ njobs = 0
    /\ assigned = [t \in Threads |-> {}]
    /\ trace = <<>>
    /\ admin_req = [t \in Threads |-> NoRequest]

\* The service is not running and the volume holds no pickle file.
ServiceInit ==
    /\ ServiceIdle
    /\ model_pkl = Nothing
    /\ encoders_pkl = Nothing

\* No merge is being looked at.
FieldsInit ==
    /\ prop_fields = Unset
    /\ detail_fields = Unset
    /\ merged_fields = Unset

(***************************************************************************)
(* FetchSpec: the scraper Me making fetch_page calls for an arbitrary      *)
(* caller, one action per loop iteration, with the record of the call.     *)
(***************************************************************************)
FetchInit ==
    /\ ScrapersInit
    /\ TasksInit
    /\ HistInit
    /\ ServiceInit
    /\ FieldsInit
    /\ jsonl_file = NoFile
    /\ csv_file = NoFile
    /\ io_failures = 0
    /\ opc = "none"
    /\ max_pages = 0
    /\ enable_details = FALSE
    /\ max_workers = 0
    /\ futures = <<>>
    /\ handled = {}
    /\ city_results = <<>>
    /\ total_properties = 0

\* USER_AGENTS, of which every request draws one (ua = random.choice(...)),
\* by the header template _get_headers_for_ua gives them.
Agents == {"chrome", "firefox"}

\* The user agents sent through the Session of identity after, when a step
\* took the identity from before to after: real are those of the step's
\* real request (through the Session before), uw is that of its warm-up
\* request, if it sent one, and prev are those sent before the step.
AgentsAfter(before, after, real, uw, prev) ==
    IF after.session # before.session
    THEN IF after.warmHits > 0 THEN {uw} ELSE {}
    ELSE prev \cup real \cup (IF after.warmHits > before.warmHits THEN {uw} ELSE {})

\* A request of _warm_up: the page it asks for and its Referer header.
WarmReq(to, referer) == [to |-> to, referer |-> referer]

\* What _warm_up sends when the flag is not set: one GET of the homepage
\* of the site, with a search-engine result page as Referer.
WarmUpRequests == <<WarmReq("homepage", "search")>>

\* The warm-up requests sent through the Session of identity after, when a
\* step took the identity from before to after.
WarmRequestsAfter(before, after, prev) ==
    IF after.session # before.session
    THEN IF after.warmHits > 0 THEN WarmUpRequests ELSE <<>>
    ELSE IF after.warmHits > before.warmHits THEN prev \o WarmUpRequests ELSE prev

FCall ==
    /\ calls < MaxCalls
    /\ \E d \in BOOLEAN, wo \in WarmOutcomes, uw \in Agents :
          /\ EnterFetch(Me, d, wo)
          /\ warm_outcome' = WarmOutcomeAfter(ident[Me], ident'[Me], wo, warm_outcome)
          /\ sess_uas' = AgentsAfter(ident[Me], ident'[Me], {}, uw, sess_uas)
          /\ warm_reqs' = WarmRequestsAfter(ident[Me], ident'[Me], warm_reqs)
    /\ calls' = calls + 1
    /\ hist' = <<>>
    /\ sessAt' = <<>>
    /\ UNCHANGED <<seen_urls, file_lock, wvars, filevars, argvars, ovars, thvars, mvars, svcvars>>

\* An entry of hist: the outcome of the attempt's request and the backoff
\* sleep that followed it.
Logged(o, pause) == [kind |-> o.kind, status |-> o.status, body |-> o.body, pause |-> pause]

FAttempt ==
    /\ \E o \in Outcomes(Bodies), wo \in WarmOutcomes, ua, uw \in Agents :
          /\ Attempt(Me, o, wo)
          /\ hist' = Append(hist, Logged(o, Iteration(Me, o, wo).pause))
          /\ warm_outcome' = WarmOutcomeAfter(ident[Me], ident'[Me], wo, warm_outcome)
          /\ sess_uas' = AgentsAfter(ident[Me], ident'[Me], {ua}, uw, sess_uas)
          /\ warm_reqs' = WarmRequestsAfter(ident[Me], ident'[Me], warm_reqs)
    /\ sessAt' = Append(sessAt, ident[Me])
    /\ UNCHANGED <<seen_urls, file_lock, wvars, filevars, argvars, ovars, calls,
                   thvars, mvars, svcvars>>

FReturn ==
    /\ LeaveFetch(Me)
    /\ hist' = <<>>
    /\ sessAt' = <<>>
    /\ UNCHANGED <<svars, wvars, filevars, argvars, ovars, calls, warm_outcome,
                   sess_uas, warm_reqs, thvars, mvars, svcvars>>

FetchNext == FCall \/ FAttempt \/ FReturn

FetchSpec == FetchInit /\ [][FetchNext]_vars

(***************************************************************************)
(* extract_property_listings                                               *)
(***************************************************************************)
Min(a, b) == IF a < b THEN a ELSE b

FirstLinks_Short(l) == SubSeq(l, 1, Min(Len(l), 2))
\* all_links[:100]
FirstLinks(l) == SubSeq(l, 1, Min(Len(l), LINK_CAP))

AlreadySeen_Never(u, seen) == FALSE
\* if url in self.seen_urls: continue
AlreadySeen(u, seen) == u \in seen

RECURSIVE ExtractFrom_Reversed(_, _, _)
ExtractFrom_Reversed(links, seen, props) ==
    IF links = <<>> THEN [seen |-> seen, props |-> props]
    ELSE LET h == Head(links)
             u == NormalizeUrl(h)
         IN  IF h = 0 \/ AlreadySeen(u, seen)
             THEN ExtractFrom_Reversed(Tail(links), seen, props)
             ELSE ExtractFrom_Reversed(Tail(links), seen \cup {u},
                                       <<Rec(u, FALSE)>> \o props)

\* The loop over the links: an empty href and a seen URL are skipped, any
\* other URL is added to seen_urls and gets a record.
RECURSIVE ExtractFrom(_, _, _)
ExtractFrom(links, seen, props) ==
    IF links = <<>> THEN [seen |-> seen, props |-> props]
    ELSE LET h == Head(links)
             u == NormalizeUrl(h)
         IN  IF h = 0 \/ AlreadySeen(u, seen)
             THEN ExtractFrom(Tail(links), seen, props)
             ELSE ExtractFrom(Tail(links), seen \cup {u}, Append(props, Rec(u, FALSE)))

ExtractListings(body, seen) == ExtractFrom(FirstLinks(body.links), seen, <<>>)

LinkPositions(l) == {i \in 1..Len(l) : l[i] # 0}

\* The places of a page's links, among those the loop looks at, where a
\* URL stands that is not in seen and that no link before it leads to.
FirstPlaces(l, seen) ==
    {i \in LinkPositions(l) :
        /\ NormalizeUrl(l[i]) \notin seen
        /\ \A j \in LinkPositions(l) : j < i => NormalizeUrl(l[j]) # NormalizeUrl(l[i])}

\* The URLs at those places, from the top of the page down.
InPageOrder(l, seen) ==
    LET P == FirstPlaces(l, seen)
        Place(k) == CHOOSE i \in P : Cardinality({j \in P : j < i}) = k - 1
    IN  [k \in 1..Cardinality(P) |-> NormalizeUrl(l[Place(k)])]

\* What a listing page holds: the URLs its non-empty hrefs lead to, the
\* number of those hrefs, and the URLs the page is the first to show to a
\* scraper that has seen `seen`, in the order of the page.
PageEntry(body, seen) ==
    [urls |-> {NormalizeUrl(body.links[i]) : i \in LinkPositions(body.links)},
     links |-> Cardinality(LinkPositions(body.links)),
     new |-> InPageOrder(FirstLinks(body.links), seen)]

(***************************************************************************)
(* scrape_single_city_task for city w, run by a pool thread                *)
(***************************************************************************)
Running(w) == wpc[w] \notin {"unsubmitted", "queued", "returned", "failed"}
Finished_OnlyReturned(w) == wpc[w] = "returned"
\* The task's future is done once the function has returned, from its
\* last line or from its except branch.
Finished(w) == wpc[w] \in {"returned", "failed"}
NumRunning == Cardinality({w \in Cities : Running(w)})

\* The pool hands the oldest queued task to a free thread.
NextQueued(w) ==
    \E i \in 1..Len(futures) :
        /\ futures[i] = w
        /\ wpc[w] = "queued"
        /\ \A j \in 1..(i - 1) : wpc[futures[j]] # "queued"

PoolHasFreeThread_Always == TRUE

\* ThreadPoolExecutor(max_workers=max_workers): a task starts when fewer
\* than max_workers tasks are running.
PoolHasFreeThread == NumRunning < max_workers

\* A pool thread starts the task: a new scraper, set_city, an empty list.
WStart(w) ==
    /\ NextQueued(w)
    /\ PoolHasFreeThread
    /\ wpc' = [wpc EXCEPT ![w] = "paginate"]
    /\ page' = [page EXCEPT ![w] = 1]
    /\ ident' = [ident EXCEPT ![ScraperOf(w)] = NewIdentity]
    /\ seen_urls' = [seen_urls EXCEPT ![ScraperOf(w)] = {}]
    /\ file_lock' = [file_lock EXCEPT ![ScraperOf(w)] = FALSE]
    /\ city_properties' = [city_properties EXCEPT ![w] = <<>>]
    /\ UNCHANGED <<fvars, idx, merged, file_exists, properties_saved,
                   filevars, argvars, ovars, hvars, svcvars>>

\* Where the phase 1 loop goes after page p: on to a page, or out (break).
Loop(go, p) == [go |-> go, page |-> p]

OnFailedPage_Skip(p) == Loop(TRUE, p + 1)
OnNothingNew_GoOn(p) == Loop(TRUE, p + 1)
OnNewRecords_Repeat(p) == Loop(TRUE, p)

\* if not html: break
OnFailedPage(p) == Loop(FALSE, p)
\* if not properties: break
OnNothingNew(p) == Loop(FALSE, p)
\* the next value of range(1, max_pages + 1)
OnNewRecords(p) == Loop(TRUE, p + 1)

\* The listing fetch_page calls of a task so far: which page, and whether
\* the call is still running, returned a page or returned a falsy value.
Fetched(p, res) == [page |-> p, res |-> res]

SetLast(log, res) == [log EXCEPT ![Len(log)].res = res]

\* Head of the phase 1 loop: fetch the next page, or go on to phase 2.
WPageCall(w) ==
    /\ wpc[w] = "paginate"
    /\ IF page[w] <= max_pages
         THEN /\ \E wo \in WarmOutcomes : EnterFetch(w, FALSE, wo)
              /\ Note(w, FALSE)
              /\ fetch_log' = [fetch_log EXCEPT ![w] = Append(@, Fetched(page[w], "pending"))]
              /\ UNCHANGED <<wpc, idx>>
         ELSE /\ fpc[w] = "idle"
              /\ wpc' = [wpc EXCEPT ![w] = "save"]
              /\ idx' = [idx EXCEPT ![w] = 1]
              /\ UNCHANGED <<ident, fvars, fetch_log, req_log>>
    /\ UNCHANGED <<seen_urls, file_lock, page, city_properties, merged, file_exists,
                   properties_saved, filevars, argvars, ovars, fhvars, page_log,
                   detail_res, mvars, svcvars>>

\* The loop of phase 1 takes its next value or is left.
PageLoop(w, l) ==
    IF l.go
    THEN /\ page' = [page EXCEPT ![w] = l.page]
         /\ UNCHANGED <<wpc, idx>>
    ELSE /\ wpc' = [wpc EXCEPT ![w] = "save"]
         /\ idx' = [idx EXCEPT ![w] = 1]
         /\ UNCHANGED page

\* fetch_page has returned html for the listing page: stop on a falsy
\* result, else extract, extend the list, and stop when nothing was new.
PageReturn(w, html) ==
    IF ~Truthy(html)
    THEN /\ fetch_log' = [fetch_log EXCEPT ![w] = SetLast(@, "failed")]
         /\ PageLoop(w, OnFailedPage(page[w]))
         /\ UNCHANGED <<seen_urls, city_properties, page_log>>
    ELSE LET x == ExtractListings(html.body, seen_urls[ScraperOf(w)]) IN
         /\ fetch_log' = [fetch_log EXCEPT ![w] = SetLast(@, "ok")]
         /\ page_log' = [page_log EXCEPT ![w] = Append(@, PageEntry(html.body, seen_urls[ScraperOf(w)]))]
         /\ seen_urls' = [seen_urls EXCEPT ![ScraperOf(w)] = x.seen]
         /\ city_properties' = [city_properties EXCEPT ![w] = @ \o x.props]
         /\ PageLoop(w, IF x.props = <<>> THEN OnNothingNew(page[w])
                                          ELSE OnNewRecords(page[w]))

KeepListing_Changed(prop) == Rec(prop.url, TRUE)

\* merged = {**prop, **detail}
MergedWithDetail(prop) == Rec(prop.url, TRUE)
\* merged = prop, in the else branch and in the except branch
KeepListing(prop) == prop

\* fetch_page has returned detail_html for the record's detail page: merge
\* the detail fields into the record on a truthy result, keep the listing
\* record otherwise or when the processing raises; then save it.
DetailReturn(w, detail_html) ==
    /\ LET prop == city_properties[w][idx[w]] IN
       IF Truthy(detail_html)
       THEN \/ /\ merged' = [merged EXCEPT ![w] = MergedWithDetail(prop)]
               /\ detail_res' = [detail_res EXCEPT ![w] = "page"]
            \/ /\ merged' = [merged EXCEPT ![w] = KeepListing(prop)]
               /\ detail_res' = [detail_res EXCEPT ![w] = "raised"]
       ELSE /\ merged' = [merged EXCEPT ![w] = KeepListing(prop)]
            /\ detail_res' = [detail_res EXCEPT ![w] = "failed"]
    /\ wpc' = [wpc EXCEPT ![w] = "jsonl_open"]

\* One attempt of the task's fetch_page call for a listing page; B are the
\* bodies a status 200 can carry.  When the call returns, the task goes on
\* with the value in the same step.
WListingAttempt(w, B) ==
    /\ wpc[w] = "paginate"
    /\ fpc[w] = "loop"
    /\ \E o \in Outcomes(B), wo \in WarmOutcomes :
          LET it == Iteration(w, o, wo) IN
          /\ o.status = 403 => ident[ScraperOf(w)].session <= MaxRotations
          /\ ident' = [ident EXCEPT ![ScraperOf(w)] = it.id]
          /\ Note(w, TRUE)
          /\ IF it.returns
               THEN /\ EndFetch(w)
                    /\ PageReturn(w, it.ret)
               ELSE /\ attempt' = [attempt EXCEPT ![w] = @ + 1]
                    /\ UNCHANGED <<fpc, is_detail, result, wpc, idx, seen_urls,
                                   city_properties, page, pvars>>
    /\ UNCHANGED <<file_lock, merged, file_exists, properties_saved,
                   filevars, argvars, ovars, fhvars, detail_res, mvars, svcvars>>

\* Head of the phase 2 loop: with details, fetch the record's detail page;
\* without, save the record as it is; after the last record, return.
WSaveNext(w) ==
    /\ wpc[w] = "save"
    /\ fpc[w] = "idle"
    /\ IF idx[w] > Len(city_properties[w])
         THEN /\ wpc' = [wpc EXCEPT ![w] = "returned"]
              /\ UNCHANGED <<ident, fvars, merged, req_log>>
         ELSE IF enable_details
         THEN /\ \E wo \in WarmOutcomes : EnterFetch(w, TRUE, wo)
              /\ Note(w, FALSE)
              /\ UNCHANGED <<wpc, merged>>
         ELSE /\ merged' = [merged EXCEPT ![w] = city_properties[w][idx[w]]]
              /\ wpc' = [wpc EXCEPT ![w] = "jsonl_open"]
              /\ UNCHANGED <<ident, fvars, req_log>>
    /\ UNCHANGED <<seen_urls, file_lock, page, city_properties, idx, file_exists,
                   properties_saved, filevars, argvars, ovars, fhvars, pvars,
                   detail_res, mvars, svcvars>>

\* One attempt of the task's fetch_page call for a detail page.
WDetailAttempt(w) ==
    /\ wpc[w] = "save"
    /\ fpc[w] = "loop"
    /\ \E o \in Outcomes(Bodies), wo \in WarmOutcomes :
          LET it == Iteration(w, o, wo) IN
          /\ o.status = 403 => ident[ScraperOf(w)].session <= MaxRotations
          /\ ident' = [ident EXCEPT ![ScraperOf(w)] = it.id]
          /\ Note(w, TRUE)
          /\ IF it.returns
               THEN /\ EndFetch(w)
                    /\ DetailReturn(w, it.ret)
               ELSE /\ attempt' = [attempt EXCEPT ![w] = @ + 1]
                    /\ UNCHANGED <<fpc, is_detail, result, wpc, merged, detail_res>>
    /\ UNCHANGED <<seen_urls, file_lock, page, city_properties, idx, file_exists,
                   properties_saved, filevars, argvars, ovars, fhvars, pvars, mvars, svcvars>>

(***************************************************************************)
(* append_property_jsonl and append_property_csv of scraper w              *)
(***************************************************************************)
\* What is written to a file: a serialized record, a newline, a CSV header
\* or a CSV row, with the city whose task wrote it.
Tok(t, w, r) == [t |-> t, w |-> w, rec |-> r]

Write_Buffered(f, tok) == f

\* The write reaches the file when its 'with open' block is left, which is
\* before the append function returns.
Write(f, tok) == [exists |-> TRUE, data |-> Append(f.data, tok)]

\* self.file_lock: the Lock of the scraper instance the task constructed.
LockOf(w) == ScraperOf(w)

Acquire(w) ==
    /\ ~file_lock[LockOf(w)]
    /\ file_lock' = [file_lock EXCEPT ![LockOf(w)] = TRUE]

Release(w) == file_lock' = [file_lock EXCEPT ![LockOf(w)] = FALSE]

\* with self.file_lock: with open(filepath, 'a'): the file is created if
\* missing; or open raises, which the function logs and swallows.
JsonlOpen(w) ==
    /\ wpc[w] = "jsonl_open"
    /\ \/ /\ Acquire(w)
          /\ jsonl_file' = [jsonl_file EXCEPT !.exists = TRUE]
          /\ wpc' = [wpc EXCEPT ![w] = "jsonl_dump"]
          /\ UNCHANGED io_failures
       \/ /\ io_failures < MaxIoFailures
          /\ io_failures' = io_failures + 1
          /\ wpc' = [wpc EXCEPT ![w] = "csv_check"]
          /\ UNCHANGED <<file_lock, jsonl_file>>
    /\ UNCHANGED <<ident, seen_urls, fvars, page, city_properties, idx, merged,
                   file_exists, properties_saved, csv_file, argvars, ovars, hvars, svcvars>>

\* json.dump(property_data, f)
JsonlDump(w) ==
    /\ wpc[w] = "jsonl_dump"
    /\ jsonl_file' = Write(jsonl_file, Tok("rec", w, merged[w]))
    /\ wpc' = [wpc EXCEPT ![w] = "jsonl_nl"]
    /\ UNCHANGED <<svars, fvars, page, city_properties, idx, merged, file_exists,
                   properties_saved, csv_file, io_failures, argvars, ovars, hvars, svcvars>>

\* f.write('\n'), then the file is closed and the lock released.
JsonlNewline(w) ==
    /\ wpc[w] = "jsonl_nl"
    /\ jsonl_file' = Write(jsonl_file, Tok("nl", w, NoRec))
    /\ Release(w)
    /\ wpc' = [wpc EXCEPT ![w] = "csv_check"]
    /\ UNCHANGED <<ident, seen_urls, fvars, page, city_properties, idx, merged,
                   file_exists, properties_saved, csv_file, io_failures, argvars,
                   ovars, hvars, svcvars>>

\* file_exists = filepath.exists() and filepath.stat().st_size > 0
CsvCheck(w) ==
    /\ wpc[w] = "csv_check"
    /\ file_exists' = [file_exists EXCEPT ![w] = csv_file.exists /\ csv_file.data # <<>>]
    /\ wpc' = [wpc EXCEPT ![w] = "csv_open"]
    /\ UNCHANGED <<svars, fvars, page, city_properties, idx, merged,
                   properties_saved, filevars, argvars, ovars, hvars, svcvars>>

\* The record is saved (or its append has failed): count it and go on.
\* A task counts in its properties_saved, scrape_infinite in its
\* total_properties.
Counted(w) ==
    /\ IF Sequential
         THEN /\ total_properties' = total_properties + 1
              /\ UNCHANGED properties_saved
         ELSE /\ properties_saved' = [properties_saved EXCEPT ![w] = @ + 1]
              /\ UNCHANGED total_properties
    /\ idx' = [idx EXCEPT ![w] = @ + 1]
    /\ merged' = [merged EXCEPT ![w] = NoRec]
    /\ file_exists' = [file_exists EXCEPT ![w] = FALSE]
    /\ detail_res' = [detail_res EXCEPT ![w] = "none"]
    /\ wpc' = [wpc EXCEPT ![w] = "save"]

\* with self.file_lock: with open(filepath, 'a', newline=''); or open
\* raises, which the function logs and swallows.
CsvOpen(w) ==
    /\ wpc[w] = "csv_open"
    /\ \/ /\ Acquire(w)
          /\ csv_file' = [csv_file EXCEPT !.exists = TRUE]
          /\ wpc' = [wpc EXCEPT ![w] = "csv_header"]
          /\ UNCHANGED <<idx, merged, file_exists, properties_saved, io_failures,
                         detail_res, total_properties>>
       \/ /\ io_failures < MaxIoFailures
          /\ io_failures' = io_failures + 1
          /\ Counted(w)
          /\ UNCHANGED <<file_lock, csv_file>>
    /\ UNCHANGED <<ident, seen_urls, fvars, page, city_properties,
                   jsonl_file, argvars, opc, futures, handled, city_results,
                   fhvars, pvars, req_log, mvars, svcvars>>

\* if not file_exists: writer.writeheader()
CsvHeader(w) ==
    /\ wpc[w] = "csv_header"
    /\ csv_file' = IF file_exists[w] THEN csv_file
                   ELSE Write(csv_file, Tok("header", w, merged[w]))
    /\ wpc' = [wpc EXCEPT ![w] = "csv_row"]
    /\ UNCHANGED <<svars, fvars, page, city_properties, idx, merged, file_exists,
                   properties_saved, jsonl_file, io_failures, argvars, ovars, hvars, svcvars>>

\* writer.writerow(property_data), then the file is closed and the lock
\* released; back in the task, properties_saved += 1.
CsvRow(w) ==
    /\ wpc[w] = "csv_row"
    /\ csv_file' = Write(csv_file, Tok("row", w, merged[w]))
    /\ Release(w)
    /\ Counted(w)
    /\ UNCHANGED <<ident, seen_urls, fvars, page, city_properties,
                   jsonl_file, io_failures, argvars, opc, futures, handled,
                   city_results, fhvars, pvars, req_log, mvars, svcvars>>

TaskErrorResult_Partial(w) == properties_saved[w]
\* except Exception: return {"city": city, "total": 0}
TaskErrorResult(w) == 0

\* The value the task returns.
TaskTotal(w) == IF wpc[w] = "failed" THEN TaskErrorResult(w) ELSE properties_saved[w]

\* An exception in the task's own code (the constructor, between the calls
\* of phase 1 or phase 2) reaches the outer except: the task ends.
WRaise(w) ==
    /\ wpc[w] \in {"paginate", "save"}
    /\ fpc[w] = "idle"
    /\ wpc' = [wpc EXCEPT ![w] = "failed"]
    /\ UNCHANGED <<svars, fvars, page, city_properties, idx, merged, file_exists,
                   properties_saved, filevars, argvars, ovars, hvars, svcvars>>

\* The steps of the task of city w; B are the listing pages of the site.
TaskStep(w, B) ==
    \/ WStart(w)
    \/ WPageCall(w)
    \/ WListingAttempt(w, B)
    \/ WSaveNext(w)
    \/ WDetailAttempt(w)
    \/ JsonlOpen(w)
    \/ JsonlDump(w)
    \/ JsonlNewline(w)
    \/ CsvCheck(w)
    \/ CsvOpen(w)
    \/ CsvHeader(w)
    \/ CsvRow(w)
    \/ WRaise(w)

(***************************************************************************)
(* WorkerSpec: one task, scrape_single_city_task(city 1, max_pages,        *)
(* enable_details), on a site of NumUrls listings.                         *)
(***************************************************************************)
WorkerInit ==
    /\ ScrapersInit
    /\ HistInit
    /\ ServiceInit
    /\ FieldsInit
    /\ wpc = [w \in Cities |-> IF w = Me THEN "queued" ELSE "unsubmitted"]
    /\ page = [w \in Cities |-> 0]
    /\ city_properties = [w \in Cities |-> <<>>]
    /\ idx = [w \in Cities |-> 0]
    /\ merged = [w \in Cities |-> NoRec]
    /\ file_exists = [w \in Cities |-> FALSE]
    /\ properties_saved = [w \in Cities |-> 0]
    /\ jsonl_file = NoFile
    /\ csv_file = NoFile
    /\ io_failures = 0
    /\ opc = "none"
    /\ max_pages \in 1..MaxPages
    /\ enable_details \in BOOLEAN
    /\ max_workers = DEFAULT_WORKERS
    /\ futures = <<Me>>
    /\ handled = {}
    /\ city_results = <<>>
    /\ total_properties = 0

WorkerNext == TaskStep(Me, PageBodies(NumUrls, MaxLinks))

WorkerSpec == WorkerInit /\ [][WorkerNext]_vars

(***************************************************************************)
(* scrape_infinite_parallel(max_pages, enable_details, max_workers)        *)
(***************************************************************************)
\* What a previous run has left in an output file.
StaleFile == [exists |-> TRUE, data |-> <<Tok("stale", 0, NoRec)>>]

\* if jsonl_file.exists(): jsonl_file.unlink(), and the same for the CSV.
OClear ==
    /\ opc = "clear"
    /\ jsonl_file' = NoFile
    /\ csv_file' = NoFile
    /\ opc' = "submit"
    /\ UNCHANGED <<svars, fvars, wvars, io_failures, argvars, futures, handled,
                   city_results, total_properties, hvars, svcvars>>

\* executor.submit(scrape_single_city_task, city, ...) for the next city of
\* CITIES; after the last one the loop over as_completed begins.
OSubmit ==
    /\ opc = "submit"
    /\ LET c == Len(futures) + 1 IN
       /\ futures' = Append(futures, c)
       /\ wpc' = [wpc EXCEPT ![c] = "queued"]
       /\ opc' = IF c = NumCities THEN "collect" ELSE "submit"
    /\ UNCHANGED <<svars, fvars, page, city_properties, idx, merged, file_exists,
                   properties_saved, filevars, argvars, handled, city_results,
                   total_properties, hvars, svcvars>>

\* The task of city c is over and its result taken: its scraper and its
\* locals are gone; what stays is how it ended and what it counted.
Discard(c) ==
    /\ ident' = [ident EXCEPT ![ScraperOf(c)] = NewIdentity]
    /\ seen_urls' = [seen_urls EXCEPT ![ScraperOf(c)] = {}]
    /\ page' = [page EXCEPT ![c] = 0]
    /\ city_properties' = [city_properties EXCEPT ![c] = <<>>]
    /\ idx' = [idx EXCEPT ![c] = 0]
    /\ page_log' = [page_log EXCEPT ![c] = <<>>]
    /\ fetch_log' = [fetch_log EXCEPT ![c] = <<>>]

AddToTotal_One(total, n) == total + 1

\* total_properties += result["total"]
AddToTotal(total, n) == total + n

\* One iteration of the loop over as_completed: a finished future is
\* yielded, its result appended to the summary and added to the total.
\* After the last one the pool is shut down and the statistics follow.
OCollect ==
    /\ opc = "collect"
    /\ \E c \in Cities \ handled :
          /\ Finished(c)
          /\ handled' = handled \cup {c}
          /\ city_results' = Append(city_results, [city |-> c, total |-> TaskTotal(c)])
          /\ total_properties' = AddToTotal(total_properties, TaskTotal(c))
          /\ opc' = IF handled' = Cities THEN "stats" ELSE "collect"
          /\ Discard(c)
    /\ UNCHANGED <<file_lock, fvars, wpc, merged, file_exists, properties_saved,
                   filevars, argvars, futures, fhvars, detail_res, req_log, mvars, svcvars>>

\* Does some line of the data hold more than one serialized record?  n is
\* the number of records of the line being read.
RECURSIVE JoinedLine(_, _)
JoinedLine(data, n) ==
    IF data = <<>> THEN n > 1
    ELSE IF Head(data).t = "nl" THEN n > 1 \/ JoinedLine(Tail(data), 0)
    ELSE JoinedLine(Tail(data), n + 1)

\* The final statistics: json.loads of every line of the JSONL file when it
\* exists, then stat() of both files.  json.loads raises on a line that is
\* not one JSON value, stat() on a missing file.
StatsRaise ==
    \/ jsonl_file.exists /\ JoinedLine(jsonl_file.data, 0)
    \/ ~jsonl_file.exists
    \/ ~csv_file.exists

OStats ==
    /\ opc = "stats"
    /\ opc' = IF StatsRaise THEN "raised" ELSE "returned"
    /\ UNCHANGED <<svars, fvars, wvars, filevars, argvars, futures, handled,
                   city_results, total_properties, hvars, svcvars>>

(***************************************************************************)
(* Spec: a run of scrape_infinite_parallel over the cities, each city's    *)
(* site holding ParUrls listings.                                          *)
(***************************************************************************)
Init ==
    /\ ScrapersInit
    /\ TasksInit
    /\ HistInit
    /\ ServiceInit
    /\ FieldsInit
    /\ \E f \in {NoFile, StaleFile} : jsonl_file = f /\ csv_file = f
    /\ io_failures = 0
    /\ opc = "clear"
    /\ max_pages \in 1..ParPages
    /\ enable_details \in BOOLEAN
    /\ max_workers \in {DEFAULT_WORKERS, SERVICE_WORKERS}
    /\ futures = <<>>
    /\ handled = {}
    /\ city_results = <<>>
    /\ total_properties = 0

Task(w) == TaskStep(w, PageBodies(ParUrls, ParLinks))

Next ==
    \/ OClear
    \/ OSubmit
    \/ \E w \in Cities : Task(w)
    \/ OCollect
    \/ OStats

Spec == Init /\ [][Next]_vars

\* The scheduler lets every thread that can take a step take one.
FairSpec ==
    /\ Spec
    /\ WF_vars(OClear \/ OSubmit \/ OCollect \/ OStats)
    /\ \A w \in Cities : WF_vars(Task(w))

(***************************************************************************)
(* SeqSpec: a run of scrape_infinite(max_pages, enable_details), which     *)
(* works through the cities one after another in the calling thread with   *)
(* one scraper.  The page loop, fetch_page and the append functions are    *)
(* those of the task; city_properties, page and idx of city c are the      *)
(* locals of iteration c of the loop over the cities.                      *)
(***************************************************************************)
SeqInit ==
    /\ ScrapersInit
    /\ TasksInit
    /\ HistInit
    /\ ServiceInit
    /\ FieldsInit
    /\ \E f \in {NoFile, StaleFile} : jsonl_file = f /\ csv_file = f
    /\ io_failures = 0
    /\ opc = "seq_clear"
    /\ max_pages \in 1..ParPages
    /\ enable_details \in BOOLEAN
    /\ max_workers = DEFAULT_WORKERS
    /\ futures = <<>>
    /\ handled = {}
    /\ city_results = <<>>
    /\ total_properties = 0

\* if jsonl_file.exists(): jsonl_file.unlink(), and the same for the CSV.
SClear ==
    /\ opc = "seq_clear"
    /\ jsonl_file' = NoFile
    /\ csv_file' = NoFile
    /\ opc' = "seq_cities"
    /\ UNCHANGED <<svars, fvars, wvars, io_failures, argvars, futures, handled,
                   city_results, total_properties, hvars, svcvars>>

\* The cities the loop has not come to yet.
CitiesLeft == {c \in Cities : wpc[c] = "unsubmitted"}

\* Head of the loop over the cities: set_city and an empty list for the
\* next city once the one before is done; after the last city the
\* statistics follow.
SCity ==
    /\ opc = "seq_cities"
    /\ \A c \in Cities : wpc[c] \in {"unsubmitted", "returned"}
    /\ IF CitiesLeft = {}
         THEN /\ opc' = "seq_stats"
              /\ UNCHANGED <<wpc, page, city_properties>>
         ELSE LET c == CHOOSE c \in CitiesLeft : \A d \in CitiesLeft : c <= d IN
              /\ wpc' = [wpc EXCEPT ![c] = "paginate"]
              /\ page' = [page EXCEPT ![c] = 1]
              /\ city_properties' = [city_properties EXCEPT ![c] = <<>>]
              /\ UNCHANGED opc
    /\ UNCHANGED <<svars, fvars, idx, merged, file_exists, properties_saved,
                   filevars, argvars, futures, handled, city_results,
                   total_properties, hvars, svcvars>>

\* Phase 2 of a city: only with details; each record's detail page is
\* fetched without is_detail; after the last record the city is done.
SSaveNext(c) ==
    /\ opc = "seq_cities"
    /\ wpc[c] = "save"
    /\ fpc[c] = "idle"
    /\ IF ~enable_details \/ idx[c] > Len(city_properties[c])
         THEN /\ wpc' = [wpc EXCEPT ![c] = "returned"]
              /\ UNCHANGED <<ident, fvars, req_log>>
         ELSE /\ \E wo \in WarmOutcomes : EnterFetch(c, FALSE, wo)
              /\ Note(c, FALSE)
              /\ UNCHANGED wpc
    /\ UNCHANGED <<seen_urls, file_lock, page, city_properties, idx, merged,
                   file_exists, properties_saved, filevars, argvars, ovars, fhvars,
                   pvars, detail_res, mvars, svcvars>>

\* An exception in the function's own code, which has no handler around
\* the loop over the cities: the run ends with it.
SRaise(c) ==
    /\ opc = "seq_cities"
    /\ wpc[c] \in {"paginate", "save"}
    /\ fpc[c] = "idle"
    /\ wpc' = [wpc EXCEPT ![c] = "failed"]
    /\ opc' = "seq_raised"
    /\ UNCHANGED <<svars, fvars, page, city_properties, idx, merged, file_exists,
                   properties_saved, filevars, argvars, futures, handled,
                   city_results, total_properties, hvars, svcvars>>

\* The final statistics: json.loads of every line of the JSONL file when
\* it exists; then return total_properties.
SStats ==
    /\ opc = "seq_stats"
    /\ opc' = IF jsonl_file.exists /\ JoinedLine(jsonl_file.data, 0)
              THEN "seq_raised" ELSE "seq_returned"
    /\ UNCHANGED <<svars, fvars, wvars, filevars, argvars, futures, handled,
                   city_results, total_properties, hvars, svcvars>>

\* The steps of the run on city c.
SeqCity(c) ==
    /\ opc = "seq_cities"
    /\ \/ WPageCall(c)
       \/ WListingAttempt(c, PageBodies(ParUrls, ParLinks))
       \/ SSaveNext(c)
       \/ WDetailAttempt(c)
       \/ JsonlOpen(c)
       \/ JsonlDump(c)
       \/ JsonlNewline(c)
       \/ CsvCheck(c)
       \/ CsvOpen(c)
       \/ CsvHeader(c)
       \/ CsvRow(c)
       \/ SRaise(c)

SeqNext ==
    \/ SClear
    \/ SCity
    \/ \E c \in Cities : SeqCity(c)
    \/ SStats

SeqSpec == SeqInit /\ [][SeqNext]_vars

(***************************************************************************)
(* MergeSpec: lines 491-494 for one record, key by key.  A dict is a       *)
(* function from the keys to a value or Absent.  Of the keys, url stands   *)
(* for those only a listing record has (url, location), price for those    *)
(* only the detail page gives (price, price_unit), bhk for those either    *)
(* may have (bhk, area_sqft, property_type); a listing record always has   *)
(* title and scraped_at.                                                   *)
(***************************************************************************)
Keys == {"url", "bhk", "title", "scraped_at", "price"}
Values == 1..MaxValue
Fields == [Keys -> Values \cup {Absent}]

\* The records extract_property_listings can build.
ListingRecords ==
    {r \in Fields : /\ r["url"] # Absent
                    /\ r["title"] # Absent
                    /\ r["scraped_at"] # Absent
                    /\ r["price"] = Absent}

\* The dicts extract_property_detail can return: any of its keys, none of
\* them url; scraped_at is missing when the parsing raised before its end.
DetailRecords == {d \in Fields : d["url"] = Absent}

Merge_ListingWins(p, d) == [k \in Keys |-> IF p[k] # Absent THEN p[k] ELSE d[k]]

\* {**prop, **detail}: the keys of both, the value of detail where it has
\* the key.
Merge(p, d) == [k \in Keys |-> IF d[k] # Absent THEN d[k] ELSE p[k]]

MergeInit ==
    /\ ScrapersInit
    /\ TasksInit
    /\ HistInit
    /\ ServiceInit
    /\ jsonl_file = NoFile
    /\ csv_file = NoFile
    /\ io_failures = 0
    /\ opc = "none"
    /\ max_pages = 1
    /\ enable_details = TRUE
    /\ max_workers = DEFAULT_WORKERS
    /\ futures = <<>>
    /\ handled = {}
    /\ city_results = <<>>
    /\ total_properties = 0
    /\ prop_fields \in ListingRecords
    /\ detail_fields = Unset
    /\ merged_fields = Unset

\* detail = scraper.extract_property_detail(detail_html)
ExtractDetail ==
    /\ detail_fields = Unset
    /\ detail_fields' \in DetailRecords
    /\ UNCHANGED <<svars, fvars, wvars, filevars, argvars, ovars, fhvars, thvars,
                   prop_fields, merged_fields, svcvars>>

\* merged = {**prop, **detail}
MergeDetail ==
    /\ detail_fields # Unset
    /\ merged_fields = Unset
    /\ merged_fields' = Merge(prop_fields, detail_fields)
    /\ UNCHANGED <<svars, fvars, wvars, filevars, argvars, ovars, fhvars, thvars,
                   prop_fields, detail_fields, svcvars>>

MergeNext == ExtractDetail \/ MergeDetail

MergeSpec == MergeInit /\ [][MergeNext]_vars

(***************************************************************************)
(* ServiceSpec: the service of railway/main.py.  The startup handler loads *)
(* the models; after it the scheduler's thread runs the weekly update and  *)
(* request threads run the two admin endpoints, at any time and side by    *)
(* side.  A call of scrape_infinite_parallel is taken as what it does to   *)
(* the output files: it unlinks them, its tasks append, it ends.           *)
(***************************************************************************)
\* os.getenv("ADMIN_API_KEY", ...), and the values of the X-API-Key header:
\* Header(None) gives None when the header is missing.
ADMIN_KEY == "admin-key"
NoKey == "none"
HeaderValues == {NoKey, "other-key", ADMIN_KEY}

KeyAccepted_AnyPresent(k) == k # NoKey
\* if x_api_key != ADMIN_KEY: raise HTTPException(status_code=403)
KeyAccepted(k) == k = ADMIN_KEY

\* The pickle files the repository ships, copied to the volume by
\* initialize_persistent_volume: older than any job of the service.
Shipped == -1

\* A call of an admin endpoint: status 0 while the handler is running.
AdminReq(e, k, status) == [endpoint |-> e, key |-> k, status |-> status]

Scraping(t) == spc[t] \in {"scrape_clear", "scrape_run"}
Retraining(t) == spc[t] \in {"rt_prepare", "rt_split", "rt_fit", "rt_save_model", "rt_save_enc"}
Loading(t) == spc[t] \in {"ld_model", "ld_enc", "ld_data", "ld_encode"}

\* The scraper's part of the state, which the service's own steps leave alone.
scrvars == <<svars, fvars, wvars, io_failures, argvars, ovars, hvars>>

\* A thread takes up a job: the startup handler at once, the others when
\* the application has started.
StartJob(t, pos) ==
    /\ spc[t] = "idle"
    /\ t # "startup" => spc["startup"] = "done"
    /\ njobs < MaxJobs
    /\ njobs' = njobs + 1
    /\ job' = [job EXCEPT ![t] = njobs + 1]
    /\ spc' = [spc EXCEPT ![t] = pos]
    /\ rv' = [rv EXCEPT ![t] = "none"]
    /\ assigned' = [assigned EXCEPT ![t] = {}]

\* The handler answers the call.
Answer(t, status) == admin_req' = [admin_req EXCEPT ![t].status = status]

\* Where a thread goes when scrape_infinite_parallel has returned (ok) or
\* raised: the weekly job to step 2 or to its except branch, which logs
\* and ends the job; the endpoint to load_models or to its except branches,
\* which answer 500.
AfterScraper(t, ok) ==
    IF ok THEN (IF t = "weekly" THEN "rt_prepare" ELSE "ld_model") ELSE "idle"

AfterRetraining_OnlyOnSuccess(t, ok) == IF t = "weekly" /\ ok THEN "ld_model" ELSE "idle"
\* Where a thread goes when run_model_retraining has returned: the weekly
\* job to step 3 whatever the value, the endpoint to its answer.
AfterRetraining(t, ok) == IF t = "weekly" THEN "ld_model" ELSE "idle"

\* Where a thread goes when load_models has returned.
AfterLoad(t) == IF t = "startup" THEN "done" ELSE "idle"

\* @app.on_event("startup"): load_models()
Startup ==
    /\ StartJob("startup", "ld_model")
    /\ UNCHANGED <<gvars, diskvars, trace, admin_req, filevars, scrvars>>

\* The scheduler fires scheduled_weekly_update: step 1, the scraper.
WeeklyStart ==
    /\ StartJob("weekly", "scrape_clear")
    /\ trace' = <<"scraper">>
    /\ UNCHANGED <<gvars, diskvars, admin_req, filevars, scrvars>>

\* POST /admin/trigger-scraper with the header value k: 403 unless the key
\* is the admin key, else the scraper is run.
TriggerCall(k) ==
    /\ spc["trigger"] = "idle"
    /\ spc["startup"] = "done"
    /\ IF KeyAccepted(k)
         THEN /\ StartJob("trigger", "scrape_clear")
              /\ admin_req' = [admin_req EXCEPT !["trigger"] = AdminReq("trigger-scraper", k, 0)]
         ELSE /\ admin_req' = [admin_req EXCEPT !["trigger"] = AdminReq("trigger-scraper", k, 403)]
              /\ UNCHANGED <<tvars, assigned>>
    /\ UNCHANGED <<gvars, diskvars, trace, filevars, scrvars>>

\* POST /admin/retrain-model with the header value k.
RetrainCall(k) ==
    /\ spc["retrain"] = "idle"
    /\ spc["startup"] = "done"
    /\ IF KeyAccepted(k)
         THEN /\ StartJob("retrain", "rt_prepare")
              /\ admin_req' = [admin_req EXCEPT !["retrain"] = AdminReq("retrain-model", k, 0)]
         ELSE /\ admin_req' = [admin_req EXCEPT !["retrain"] = AdminReq("retrain-model", k, 403)]
              /\ UNCHANGED <<tvars, assigned>>
    /\ UNCHANGED <<gvars, diskvars, trace, filevars, scrvars>>

\* scrape_infinite_parallel: if jsonl_file.exists(): jsonl_file.unlink(),
\* and the same for the CSV file.
SvClear(t) ==
    /\ spc[t] = "scrape_clear"
    /\ jsonl_file' = NoFile
    /\ csv_file' = NoFile
    /\ spc' = [spc EXCEPT ![t] = "scrape_run"]
    /\ UNCHANGED <<gvars, diskvars, rv, job, njobs, assigned, trace, admin_req, scrvars>>

\* The records of the run of thread t in the JSONL file.
RunRecords(t) ==
    {k \in 1..Len(jsonl_file.data) :
        jsonl_file.data[k].t = "rec" /\ jsonl_file.data[k].w = t}

\* A task of the run appends a record to both files.
SvAppend(t) ==
    /\ spc[t] = "scrape_run"
    /\ Cardinality(RunRecords(t)) < MaxRunRecords
    /\ jsonl_file' = Write(Write(jsonl_file, Tok("rec", t, NoRec)), Tok("nl", t, NoRec))
    /\ csv_file' = Write(csv_file, Tok("row", t, NoRec))
    /\ UNCHANGED <<gvars, diskvars, tvars, assigned, trace, admin_req, scrvars>>

\* The run ends: the function returns its total or raises.
SvScrapeEnd(t) ==
    /\ spc[t] = "scrape_run"
    /\ \E ok \in BOOLEAN :
          /\ spc' = [spc EXCEPT ![t] = AfterScraper(t, ok)]
          /\ rv' = [rv EXCEPT ![t] = IF ok THEN "returned" ELSE "raised"]
          /\ trace' = IF t # "weekly" THEN trace
                      ELSE IF ok THEN trace \o <<"scraper_returned", "retrain">>
                      ELSE trace \o <<"scraper_raised", "caught">>
          /\ IF t = "trigger"
               THEN IF ok THEN UNCHANGED admin_req ELSE Answer(t, 500)
               ELSE UNCHANGED admin_req
          /\ assigned' = [assigned EXCEPT ![t] = {}]
    /\ UNCHANGED <<gvars, diskvars, job, njobs, filevars, scrvars>>

\* run_model_retraining returns ok to its caller.
RtReturn(t, ok) ==
    /\ spc' = [spc EXCEPT ![t] = AfterRetraining(t, ok)]
    /\ rv' = [rv EXCEPT ![t] = IF ok THEN "true" ELSE "false"]
    /\ trace' = IF t # "weekly" THEN trace
                ELSE trace \o <<IF ok THEN "retrain_true" ELSE "retrain_false">>
                           \o (IF AfterRetraining(t, ok) = "ld_model" THEN <<"load">> ELSE <<"end">>)
    /\ IF t = "retrain" THEN Answer(t, IF ok THEN 200 ELSE 500)
                        ELSE UNCHANGED admin_req

\* The function the thread is in goes on to its next step.
GoOn(t, pos) ==
    /\ spc' = [spc EXCEPT ![t] = pos]
    /\ UNCHANGED <<rv, trace, admin_req>>

\* Reading the JSONL file, normalize_prices, clean_data and
\* feature_engineering, whose encoders are assigned to the globals; an
\* exception in any of them ends the call with False.
RtPrepare(t) ==
    /\ spc[t] = "rt_prepare"
    /\ \/ /\ RtReturn(t, FALSE)
          /\ UNCHANGED <<gvars, assigned>>
       \/ /\ le_location' = job[t]
          /\ le_ptype' = job[t]
          /\ assigned' = [assigned EXCEPT ![t] = @ \cup {"le_location", "le_ptype"}]
          /\ GoOn(t, "rt_split")
          /\ UNCHANGED <<model_rf, market_data, last_update_time>>
    /\ UNCHANGED <<diskvars, job, njobs, filevars, scrvars>>

\* train_test_split, then model_rf = RandomForestRegressor(...).
RtSplit(t) ==
    /\ spc[t] = "rt_split"
    /\ \/ /\ RtReturn(t, FALSE)
          /\ UNCHANGED <<gvars, assigned>>
       \/ /\ model_rf' = [gen |-> job[t], fitted |-> FALSE]
          /\ assigned' = [assigned EXCEPT ![t] = @ \cup {"model_rf"}]
          /\ GoOn(t, "rt_fit")
          /\ UNCHANGED <<le_location, le_ptype, market_data, last_update_time>>
    /\ UNCHANGED <<diskvars, job, njobs, filevars, scrvars>>

\* model_rf.fit, predict and the metrics, on what the global holds.
RtFit(t) ==
    /\ spc[t] = "rt_fit"
    /\ \/ /\ RtReturn(t, FALSE)
          /\ UNCHANGED <<gvars, assigned>>
       \/ /\ model_rf' = [model_rf EXCEPT !.fitted = TRUE]
          /\ GoOn(t, "rt_save_model")
          /\ UNCHANGED <<le_location, le_ptype, market_data, last_update_time, assigned>>
    /\ UNCHANGED <<diskvars, job, njobs, filevars, scrvars>>

\* with open(model_path, 'wb'): pickle.dump(model_rf, f)
RtSaveModel(t) ==
    /\ spc[t] = "rt_save_model"
    /\ \/ /\ RtReturn(t, FALSE)
          /\ UNCHANGED model_pkl
       \/ /\ model_pkl' = model_rf.gen
          /\ GoOn(t, "rt_save_enc")
    /\ UNCHANGED <<gvars, encoders_pkl, job, njobs, assigned, filevars, scrvars>>

\* with open(encoder_path, 'wb'): pickle.dump((le_location, le_ptype), f);
\* then market_data = df, last_update_time = utcnow() and return True.
RtSaveEnc(t) ==
    /\ spc[t] = "rt_save_enc"
    /\ \/ /\ RtReturn(t, FALSE)
          /\ UNCHANGED <<encoders_pkl, gvars, assigned>>
       \/ /\ encoders_pkl' = le_location
          /\ market_data' = job[t]
          /\ last_update_time' = job[t]
          /\ assigned' = [assigned EXCEPT ![t] = @ \cup {"market_data", "last_update_time"}]
          /\ RtReturn(t, TRUE)
          /\ UNCHANGED <<model_rf, le_location, le_ptype>>
    /\ UNCHANGED <<model_pkl, job, njobs, filevars, scrvars>>

\* load_models returns ok to its caller, which does not look at the value
\* (the startup handler only logs it).
LdReturn(t, ok) ==
    /\ spc' = [spc EXCEPT ![t] = AfterLoad(t)]
    /\ rv' = [rv EXCEPT ![t] = IF ok THEN "true" ELSE "false"]
    /\ trace' = IF t = "weekly" THEN trace \o <<"load_returned", "end">> ELSE trace
    /\ IF t = "trigger" THEN Answer(t, 200) ELSE UNCHANGED admin_req

\* with open(model_path, "rb"): model_rf = pickle.load(f)
LdModel(t) ==
    /\ spc[t] = "ld_model"
    /\ \/ /\ LdReturn(t, FALSE)
          /\ UNCHANGED gvars
       \/ /\ model_pkl # Nothing
          /\ model_rf' = [gen |-> model_pkl, fitted |-> TRUE]
          /\ GoOn(t, "ld_enc")
          /\ UNCHANGED <<le_location, le_ptype, market_data, last_update_time>>
    /\ UNCHANGED <<diskvars, job, njobs, assigned, filevars, scrvars>>

\* with open(encoder_path, "rb"): le_location, le_ptype = pickle.load(f)
LdEnc(t) ==
    /\ spc[t] = "ld_enc"
    /\ \/ /\ LdReturn(t, FALSE)
          /\ UNCHANGED gvars
       \/ /\ encoders_pkl # Nothing
          /\ le_location' = encoders_pkl
          /\ le_ptype' = encoders_pkl
          /\ GoOn(t, "ld_data")
          /\ UNCHANGED <<model_rf, market_data, last_update_time>>
    /\ UNCHANGED <<diskvars, job, njobs, assigned, filevars, scrvars>>

\* market_data = pd.read_json(data_path, lines=True)
LdData(t) ==
    /\ spc[t] = "ld_data"
    /\ \/ /\ LdReturn(t, FALSE)
          /\ UNCHANGED gvars
       \/ /\ market_data' = job[t]
          /\ GoOn(t, "ld_encode")
          /\ UNCHANGED <<model_rf, le_location, le_ptype, last_update_time>>
    /\ UNCHANGED <<diskvars, job, njobs, assigned, filevars, scrvars>>

\* The price and encoding columns, which can raise (an unseen label), then
\* last_update_time = the file's mtime and return True.
LdEncode(t) ==
    /\ spc[t] = "ld_encode"
    /\ \/ /\ LdReturn(t, FALSE)
          /\ UNCHANGED gvars
       \/ /\ last_update_time' = job[t]
          /\ LdReturn(t, TRUE)
          /\ UNCHANGED <<model_rf, le_location, le_ptype, market_data>>
    /\ UNCHANGED <<diskvars, job, njobs, assigned, filevars, scrvars>>

\* The application starts on a volume that holds the shipped pickle
\* files or lacks either; no scraper is running.
ServiceStart ==
    /\ ScrapersInit
    /\ TasksInit
    /\ HistInit
    /\ FieldsInit
    /\ ServiceIdle
    /\ model_pkl \in {Nothing, Shipped}
    /\ encoders_pkl \in {Nothing, Shipped}
    /\ \E f \in {NoFile, StaleFile} : jsonl_file = f /\ csv_file = f
    /\ io_failures = 0
    /\ opc = "none"
    /\ max_pages = 0
    /\ enable_details = FALSE
    /\ max_workers = 0
    /\ futures = <<>>
    /\ handled = {}
    /\ city_results = <<>>
    /\ total_properties = 0

ServiceThread(t) ==
    \/ SvClear(t)
    \/ SvAppend(t)
    \/ SvScrapeEnd(t)
    \/ RtPrepare(t)
    \/ RtSplit(t)
    \/ RtFit(t)
    \/ RtSaveModel(t)
    \/ RtSaveEnc(t)
    \/ LdModel(t)
    \/ LdEnc(t)
    \/ LdData(t)
    \/ LdEncode(t)

ServiceNext ==
    \/ Startup
    \/ WeeklyStart
    \/ \E k \in HeaderValues : TriggerCall(k)
    \/ \E k \in HeaderValues : RetrainCall(k)
    \/ \E t \in Threads : ServiceThread(t)

ServiceSpec == ServiceStart /\ [][ServiceNext]_vars

(***************************************************************************)
(* Properties of fetch_page (FetchSpec)                                    *)
(***************************************************************************)
IsSuccess(o) == o.kind = "resp" /\ o.status = 200
IsBlocked(o) == o.kind = "resp" /\ o.status = 403
IsTransient(o) == o.kind \in {"timeout", "connerr"}
Sessions(ids) == {ids[j].session : j \in 1..Len(ids)}

AttemptsAreTTBS ==
    /\ Len(hist) = 4
    /\ IsTransient(hist[1])
    /\ IsTransient(hist[2])
    /\ IsBlocked(hist[3])
    /\ IsSuccess(hist[4])

\* C3: with the outcomes TransientError, TransientError, Blocked, Success
\* the call returns the body of attempt 4, and the Session was replaced
\* exactly once, between attempt 3 and attempt 4.
C3_ScenarioTTBS ==
    AttemptsAreTTBS =>
        /\ fpc[Me] = "returned"
        /\ result[Me] = Text(hist[4].body)
        /\ sessAt[1].session = sessAt[2].session
        /\ sessAt[2].session = sessAt[3].session
        /\ sessAt[4].session = sessAt[3].session + 1
        /\ ident[Me].session = sessAt[4].session

\* C3 witness: the scenario has happened.
C3_Witness == AttemptsAreTTBS /\ fpc[Me] = "returned" /\ Truthy(result[Me])

\* C10: a listing fetch never hands its caller, as a page, a status-200
\* body shorter than MIN_LISTING_SIZE.
C10_SmallListingNotSuccess ==
    \A i \in 1..Len(hist) :
        (/\ fpc[Me] = "returned"
         /\ ~is_detail[Me]
         /\ IsSuccess(hist[i])
         /\ hist[i].body.len < MIN_LISTING_SIZE)
            => ~Truthy(result[Me])

\* C11: a fetch never hands its caller, as a page, a status-200 body that
\* holds a soft-block keyword, whatever the body's size and whether the
\* page is a listing or a detail page.
C11_KeywordNotSuccess ==
    \A i \in 1..Len(hist) :
        (/\ fpc[Me] = "returned"
         /\ IsSuccess(hist[i])
         /\ HasSoftBlockKeyword(hist[i].body))
            => ~Truthy(result[Me])

IsFatal(o) == o.kind = "resp" /\ o.status \notin {200, 403, 429}
IsRateLimited(o) == o.kind = "resp" /\ o.status = 429

C13_RetrySameSession ==
    \A i \in 1..Len(hist) :
        ((IsRateLimited(hist[i]) \/ IsTransient(hist[i])) /\ i < MAX_RETRIES) =>
            IF i < Len(hist)
            THEN sessAt[i + 1] = sessAt[i]
            ELSE /\ fpc[Me] = "loop"
                 /\ attempt[Me] = i + 1
                 /\ ident[Me] = sessAt[i]

\* C13 witness: a 429, a timeout and a connection error, each followed by
\* another attempt.
C13_Witness ==
    /\ Len(hist) = 4
    /\ IsRateLimited(hist[1])
    /\ hist[2].kind = "timeout"
    /\ hist[3].kind = "connerr"

\* A step that enters fetch_page with a warmed Session.
WarmCallStep == fpc[Me] = "idle" /\ fpc'[Me] = "loop" /\ ident[Me].warmed

\* C14: no Session ever gets more than one warm-up request, over all the
\* calls made through it, and the _warm_up call at the head of fetch_page
\* leaves a warmed Session and its flag as they are.
C14_WarmUpIdempotent ==
    /\ [](/\ ident[Me].warmHits <= 1
          /\ \A i \in 1..Len(sessAt) : sessAt[i].warmHits <= 1)
    /\ [][WarmCallStep => ident'[Me] = ident[Me]]_vars

\* C14 witness: a second fetch_page call through the Session the first
\* call warmed up.
C14_Witness ==
    /\ calls = 2
    /\ fpc[Me] = "loop"
    /\ ident[Me] = [session |-> 1, warmed |-> TRUE, warmHits |-> 1]

\* C15: a call that has returned has issued its real request whatever the
\* warm-up did, and a Session whose warm-up failed counts as warmed, with
\* that one homepage request and no other.
C15_WarmUpFailureSwallowed ==
    /\ fpc[Me] = "returned" => Len(hist) >= 1
    /\ warm_outcome \in {"status", "exception"} =>
          /\ ident[Me].warmed
          /\ ident[Me].warmHits = 1
          /\ fpc[Me] = "loop" => attempt[Me] = Len(hist) + 1

\* C15 witness: the first warm-up raised, the call went on to a 200, and a
\* second call is going through the same Session.
C15_Witness ==
    /\ warm_outcome = "exception"
    /\ calls = 2
    /\ Len(hist) = 1
    /\ sessAt[1].session = 1
    /\ IsSuccess(hist[1])

\* C24: all the requests sent through one Session, its warm-up request and
\* every real attempt, carry one and the same user agent.
C24_OneProfilePerSession == Cardinality(sess_uas) <= 1

\* C29: every real attempt of a call went through a Session that had been
\* sent its warm-up request, and so will the next attempt of a call that is
\* in its loop; this covers the scraper's first Session and the Sessions
\* made on rotation.
C29_WarmUpBeforeRealRequest ==
    /\ \A i \in 1..Len(sessAt) : sessAt[i].warmHits >= 1
    /\ fpc[Me] = "loop" => ident[Me].warmHits >= 1

\* C29 witness: attempts through the first Session and, after a rotation,
\* an attempt through the second one.
C29_Witness ==
    /\ Len(sessAt) >= 3
    /\ sessAt[1].session = 1
    /\ sessAt[3].session = 2
    /\ sessAt[3].warmHits = 1

\* C31: a warm-up of a Session has sent three requests, in this order: one
\* to a search engine, one for the landing page with the search result as
\* referrer, one for the target page with the landing page as referrer.
C31_WarmUpThreeHops ==
    ident[Me].warmHits > 0 =>
        /\ Len(warm_reqs) = 3
        /\ warm_reqs[1].to = "search"
        /\ warm_reqs[2] = WarmReq("homepage", "search")
        /\ warm_reqs[3] = WarmReq("target", "homepage")

\* The identity attempt i of the current call left behind: the one the
\* next attempt went through, or for the last attempt made the present one.
IdentityAfter(i) == IF i < Len(sessAt) THEN sessAt[i + 1] ELSE ident[Me]

\* C32: within one call the Session is replaced at most twice, and an
\* attempt that replaced it was attempt 2 or 3 and got a 403; a 403 on
\* attempt 1 or on attempt 4 leaves the Session and its flag as they were.
C32_RotationOnlyAfterSecondOrThird403 ==
    /\ Len(sessAt) >= 1 => ident[Me].session - sessAt[1].session <= 2
    /\ \A i \in 1..Len(sessAt) :
          /\ IdentityAfter(i).session # sessAt[i].session =>
                IsBlocked(hist[i]) /\ i \in {2, 3}
          /\ (IsBlocked(hist[i]) /\ i \in {1, MAX_RETRIES}) =>
                IdentityAfter(i) = sessAt[i]

\* C32 witness: a call whose four attempts all got a 403; the Session was
\* replaced after the second and after the third, and stayed after the
\* first and after the fourth.
C32_Witness ==
    /\ Len(sessAt) = MAX_RETRIES
    /\ \A i \in 1..MAX_RETRIES : IsBlocked(hist[i])
    /\ sessAt[2] = sessAt[1]
    /\ sessAt[3].session = sessAt[1].session + 1
    /\ sessAt[4].session = sessAt[1].session + 2
    /\ ident[Me] = sessAt[4]

(***************************************************************************)
(* Properties of the output files and of the orchestrator (Spec)           *)
(***************************************************************************)
InJsonlWrite(w) == wpc[w] \in {"jsonl_dump", "jsonl_nl"}
InCsvWrite(w) == wpc[w] \in {"csv_header", "csv_row"}

\* C4: no two tasks are at the same time inside the write section of the
\* same output file.
C4_WritesMutuallyExclusive ==
    \A v, w \in Cities :
        v # w => /\ ~(InJsonlWrite(v) /\ InJsonlWrite(w))
                 /\ ~(InCsvWrite(v) /\ InCsvWrite(w))

RunOver == opc \in {"stats", "returned", "raised"}

RECURSIVE SumSaved(_)
SumSaved(S) ==
    IF S = {} THEN 0
    ELSE LET c == CHOOSE x \in S : TRUE IN properties_saved[c] + SumSaved(S \ {c})

\* Every serialized record is directly followed by the newline of the task
\* that wrote it, and every newline follows a record.
LinesWhole(data) ==
    /\ Len(data) % 2 = 0
    /\ \A i \in 1..Len(data) :
          IF i % 2 = 1
          THEN data[i].t = "rec" /\ data[i + 1].t = "nl" /\ data[i + 1].w = data[i].w
          ELSE data[i].t = "nl"

HasEntry(c, total) ==
    /\ \E i \in 1..Len(city_results) : city_results[i] = [city |-> c, total |-> total]
    /\ Cardinality({i \in 1..Len(city_results) : city_results[i].city = c}) = 1

\* C6: when the run is over every task has finished, a task that raised
\* has count 0 in the summary, and every other task has its own count.
C6_FailureIsolated ==
    RunOver =>
        \A c \in Cities :
            /\ Finished(c)
            /\ HasEntry(c, IF wpc[c] = "failed" THEN 0 ELSE properties_saved[c])

\* C6 witness: a task raised after saving a record, another task returned
\* with a record saved, and the run is over.
C6_Witness ==
    /\ RunOver
    /\ \E a, b \in Cities :
          /\ wpc[a] = "failed" /\ properties_saved[a] > 0
          /\ wpc[b] = "returned" /\ properties_saved[b] > 0

Terminated == opc \in {"returned", "raised"}

\* C7: under fair scheduling the run terminates, and when it has, the
\* summary holds an entry for every city.
C7_TerminatesWithFullSummary ==
    /\ <>Terminated
    /\ [](Terminated => \A c \in Cities :
                            \E i \in 1..Len(city_results) : city_results[i].city = c)

\* C7 witness: a terminated run in which a task raised and another task
\* found nothing to save.
C7_Witness ==
    /\ Terminated
    /\ \E a, b \in Cities :
          /\ wpc[a] = "failed"
          /\ wpc[b] = "returned" /\ properties_saved[b] = 0

\* A rotation by the thread of city w: its scraper has a later Session.
Rotates(w) == ident'[w].session > ident[w].session

\* C23: every request went through a Session of the scraper the sending
\* thread's own task constructed, no Session has carried requests of two
\* threads, and a rotation happens inside the fetch_page call of the
\* thread that owns the scraper and leaves every other scraper's Session
\* as it was.
C23_SessionsExclusive ==
    /\ [](\A r, q \in req_log :
            /\ r.scraper = r.worker
            /\ (r.scraper = q.scraper /\ r.session = q.session) => r.worker = q.worker)
    /\ [][\A w \in Cities :
            Rotates(w) =>
                /\ fpc[w] = "loop"
                /\ \A v \in Cities \ {w} : ident'[v] = ident[v]]_vars

\* C23 witness: two tasks running at once, each having sent requests, one
\* of them through its second Session as well.
C23_Witness ==
    /\ Running(1) /\ Running(2)
    /\ {Req(1, 1, 1), Req(1, 2, 1), Req(2, 1, 2)} \subseteq req_log

\* The position of city c among the submitted futures.
Submitted(c) == {i \in 1..Len(futures) : futures[i] = c}

\* C25: every city is submitted once and its task started once, never
\* more than max_workers tasks run at a time, and with the default
\* max_workers a task runs only when every task submitted before it has
\* finished.
C25_OneWorkerPerTargetBounded ==
    /\ [](/\ NumRunning <= max_workers
          /\ \A c \in Cities : Cardinality(Submitted(c)) <= 1
          /\ \A c \in Cities : wpc[c] # "unsubmitted" <=> Submitted(c) # {}
          /\ opc \in {"collect", "stats", "returned", "raised"} =>
                \A c \in Cities : Cardinality(Submitted(c)) = 1
          /\ RunOver => \A c \in Cities : Finished(c)
          /\ max_workers = DEFAULT_WORKERS =>
                \A c \in Cities :
                    Running(c) =>
                        \A i \in 1..Len(futures) :
                            (\A j \in Submitted(c) : i < j) => Finished(futures[i]))
    /\ [][\A c \in Cities :
            /\ (Running(c)' /\ ~Running(c)) => wpc[c] = "queued"
            /\ (wpc'[c] = "queued" /\ wpc[c] # "queued") => wpc[c] = "unsubmitted"
            /\ wpc'[c] = "unsubmitted" => wpc[c] = "unsubmitted"]_vars

\* C25 witness: with the default max_workers the second city's task is
\* running and the first city's task has returned with a record saved.
C25_Witness ==
    /\ max_workers = DEFAULT_WORKERS
    /\ Running(2)
    /\ wpc[1] = "returned"
    /\ properties_saved[1] > 0

\* The columns a record is written under: fieldnames = sorted(
\* property_data.keys()).  A record with its detail merged in has the keys
\* of the listing record and those the detail page added.
Columns(rec) == IF rec.det THEN {"listing keys", "detail keys"} ELSE {"listing keys"}

\* C26: once the old files are cleared the CSV file has at most one header,
\* it is the first thing in the file, and every row has the columns of
\* the header.
C26_OneHeaderFixesColumns ==
    LET d == csv_file.data IN
    opc # "clear" =>
        /\ Cardinality({i \in 1..Len(d) : d[i].t = "header"}) <= 1
        /\ d # <<>> => d[1].t = "header"
        /\ \A i \in 1..Len(d) :
              d[i].t = "row" => Columns(d[i].rec) = Columns(d[1].rec)

RECURSIVE SumTotals(_)
SumTotals(results) ==
    IF results = <<>> THEN 0 ELSE Head(results).total + SumTotals(Tail(results))

EntriesOf(c) == {i \in 1..Len(city_results) : city_results[i].city = c}

\* C27: the total is at any time the sum of the counts in the summary, no
\* city has two entries, and once the loop over the futures is over the
\* summary has one entry for every city.
C27_SummaryOnePerTarget ==
    /\ total_properties = SumTotals(city_results)
    /\ \A c \in Cities : Cardinality(EntriesOf(c)) <= 1
    /\ RunOver =>
          /\ Len(city_results) = NumCities
          /\ \A c \in Cities : Cardinality(EntriesOf(c)) = 1

\* C27 witness: the run has returned, with one city counting a record and
\* the other none.
C27_Witness ==
    /\ opc = "returned"
    /\ total_properties = 1
    /\ \E i, j \in 1..Len(city_results) :
          city_results[i].total = 1 /\ city_results[j].total = 0

\* C28: a run in which no task has saved a record ends by returning, not
\* by raising, and its total is 0.
C28_AllEmptyStillReturns ==
    (/\ opc \in {"returned", "raised"}
     /\ \A c \in Cities : properties_saved[c] = 0) =>
        /\ opc = "returned"
        /\ total_properties = 0

(***************************************************************************)
(* Properties of one task (WorkerSpec)                                     *)
(***************************************************************************)
RECURSIVE UrlsOf(_)
UrlsOf(log) == IF log = <<>> THEN {} ELSE Head(log).urls \cup UrlsOf(Tail(log))

\* C8: without detail enrichment the count a task returns is the number of
\* distinct URLs on the pages it fetched; with max_pages = 2, three URLs on
\* page 1 and nothing new on page 2, the count is 3.
C8_CountIsDistinctUrls ==
    (wpc[Me] = "returned" /\ ~enable_details) =>
        /\ properties_saved[Me] = Cardinality(UrlsOf(page_log[Me]))
        /\ Len(page_log[Me]) <= max_pages
        /\ (/\ max_pages = 2
            /\ Len(page_log[Me]) = 2
            /\ Cardinality(page_log[Me][1].urls) = 3
            /\ page_log[Me][2].urls \subseteq page_log[Me][1].urls)
              => properties_saved[Me] = 3

\* C8 witness: the scenario has happened.
C8_Witness ==
    /\ wpc[Me] = "returned"
    /\ ~enable_details
    /\ max_pages = 2
    /\ Len(page_log[Me]) = 2
    /\ Cardinality(page_log[Me][1].urls) = 3
    /\ page_log[Me][2].urls \subseteq page_log[Me][1].urls
    /\ page_log[Me][2].links > 0
    /\ properties_saved[Me] = 3

\* C9: the URLs of a task's accumulated records are pairwise distinct.
C9_UrlsDistinct ==
    \A i, j \in 1..Len(city_properties[Me]) :
        i # j => city_properties[Me][i].url # city_properties[Me][j].url

\* C9 witness: a page that held one URL twice, and a second page that held
\* a URL of the first.
C9_Witness ==
    /\ Len(page_log[Me]) = 2
    /\ page_log[Me][1].links > Cardinality(page_log[Me][1].urls)
    /\ page_log[Me][1].urls \cap page_log[Me][2].urls # {}
    /\ Len(city_properties[Me]) >= 2

IsRec(tok) == tok.t = "rec"

\* The records of the JSONL file, in the order of their appends.
JsonlRecords ==
    LET toks == SelectSeq(jsonl_file.data, IsRec) IN
    [i \in 1..Len(toks) |-> toks[i].rec]

UrlSeq(recs) == [i \in 1..Len(recs) |-> recs[i].url]

\* The URLs first met on page n of the log.
NewOn(log, n) == log[n].urls \ UrlsOf(SubSeq(log, 1, n - 1))

\* C16: when the fetch of page N has returned nothing, that call is the
\* task's last listing fetch and no page above N has been requested; the
\* accumulated records are those of the pages before N, and a task that
\* returns has counted every one of them and, with no failed open, has
\* appended them in order to the JSONL file.
C16_FailedPageStopsKeepsPartial ==
    LET log == fetch_log[Me] IN
    \A n \in 1..Len(log) :
        log[n].res = "failed" =>
            /\ n = Len(log)
            /\ \A i \in 1..Len(log) : log[i].page <= log[n].page
            /\ wpc[Me] # "paginate"
            /\ Len(page_log[Me]) = n - 1
            /\ {city_properties[Me][i].url : i \in 1..Len(city_properties[Me])}
                  = UrlsOf(page_log[Me])
            /\ wpc[Me] = "returned" =>
                  /\ properties_saved[Me] = Len(city_properties[Me])
                  /\ TaskTotal(Me) = Len(city_properties[Me])
                  /\ io_failures = 0 =>
                        UrlSeq(JsonlRecords) = UrlSeq(city_properties[Me])

\* C16 witness: page 1 gave records, the fetch of page 2 failed, and the
\* task has returned with the records of page 1 written and counted.
C16_Witness ==
    /\ wpc[Me] = "returned"
    /\ Len(fetch_log[Me]) = 2
    /\ fetch_log[Me][1].res = "ok"
    /\ fetch_log[Me][2].res = "failed"
    /\ properties_saved[Me] >= 2
    /\ Len(JsonlRecords) = properties_saved[Me]

\* C17: when a fetched page N has brought no URL that was not seen on an
\* earlier page, its call is the task's last listing fetch and the task
\* has left pagination, also below max_pages.
C17_NothingNewStops ==
    LET log == fetch_log[Me] IN
    \A n \in 1..Len(log) :
        (/\ log[n].res = "ok"
         /\ NewOn(page_log[Me], n) = {}) =>
            /\ n = Len(log)
            /\ \A i \in 1..Len(log) : log[i].page <= log[n].page
            /\ wpc[Me] # "paginate"

\* C17 witness: with max_pages = 2, page 1 was fetched and brought no
\* new record, and the task has returned without asking for page 2.
C17_Witness ==
    /\ wpc[Me] = "returned"
    /\ max_pages = 2
    /\ Len(fetch_log[Me]) = 1
    /\ fetch_log[Me][1].res = "ok"
    /\ page_log[Me][1].urls = {}

\* C18: the i-th listing fetch of a task is for page i and i <= max_pages;
\* every fetch but the last has returned a page, which has been extracted
\* and deduplicated (its URLs are in seen_urls, its new records in the
\* list) and brought something new; only the last can still be running.
C18_PagesSequential ==
    LET log == fetch_log[Me] IN
    /\ \A i \in 1..Len(log) : log[i].page = i /\ i <= max_pages
    /\ \A i \in 1..(Len(log) - 1) :
          log[i].res = "ok" /\ NewOn(page_log[Me], i) # {}
    /\ \A i \in 1..Len(log) :
          log[i].res = "pending" <=>
              (i = Len(log) /\ wpc[Me] = "paginate" /\ fpc[Me] = "loop")
    /\ Len(page_log[Me]) = Cardinality({i \in 1..Len(log) : log[i].res = "ok"})
    /\ UrlsOf(page_log[Me]) \subseteq seen_urls[Me]
    /\ Len(city_properties[Me]) = Cardinality(UrlsOf(page_log[Me]))

\* C18 witness: the first attempt for page 2 is about to be issued, page 1
\* having been fetched and its two records taken.
C18_Witness ==
    /\ Len(fetch_log[Me]) = 2
    /\ fetch_log[Me][2] = Fetched(2, "pending")
    /\ attempt[Me] = 1
    /\ Len(city_properties[Me]) = 2
    /\ Cardinality(seen_urls[Me]) = 2

IsRow(tok) == tok.t = "row"

\* The rows of the CSV file, in the order of their appends.
CsvRows ==
    LET toks == SelectSeq(csv_file.data, IsRow) IN
    [i \in 1..Len(toks) |-> toks[i].rec]

\* How many of the task's records have been through the append to the
\* JSONL file, and through the append to the CSV file.
JsonlDone(w) ==
    IF wpc[w] \in {"jsonl_open", "jsonl_dump"} THEN idx[w] - 1
    ELSE IF wpc[w] \in {"jsonl_nl", "csv_check", "csv_open", "csv_header", "csv_row"}
    THEN idx[w]
    ELSE IF idx[w] = 0 THEN 0 ELSE idx[w] - 1

CsvDone(w) == IF idx[w] = 0 THEN 0 ELSE idx[w] - 1

\* C19: with details enabled and no failed open, the records appended so
\* far are the first records of the accumulated list, in order and one
\* append each to either file; each is the listing record or that record
\* with its detail merged in, and it is the listing record, unchanged,
\* when its detail fetch returned nothing or its processing raised.  A
\* task that returns has appended every accumulated record.
C19_EveryRecordSavedOnce ==
    (enable_details /\ io_failures = 0) =>
        LET props == city_properties[Me]
            recs == JsonlRecords
        IN
        /\ Len(recs) = JsonlDone(Me)
        /\ Len(CsvRows) = CsvDone(Me)
        /\ Len(recs) <= Len(props)
        /\ \A i \in 1..Len(recs) :
              /\ recs[i] \in {props[i], MergedWithDetail(props[i])}
              /\ i <= Len(CsvRows) => CsvRows[i] = recs[i]
        /\ detail_res[Me] \in {"failed", "raised"} =>
              /\ merged[Me] = city_properties[Me][idx[Me]]
              /\ JsonlDone(Me) = idx[Me] => recs[idx[Me]] = props[idx[Me]]
        /\ detail_res[Me] = "page" =>
              merged[Me] = MergedWithDetail(city_properties[Me][idx[Me]])
        /\ wpc[Me] = "returned" =>
              /\ Len(recs) = Len(props)
              /\ Len(CsvRows) = Len(props)
              /\ properties_saved[Me] = Len(props)

\* C19 witness: the first record was saved with its detail merged in, the
\* detail fetch of the second returned nothing, and the second has been
\* appended to the JSONL file as the listing record.
C19_Witness ==
    /\ enable_details
    /\ io_failures = 0
    /\ wpc[Me] = "csv_check"
    /\ idx[Me] = 2
    /\ detail_res[Me] = "failed"
    /\ Len(JsonlRecords) = 2
    /\ JsonlRecords[1] = MergedWithDetail(city_properties[Me][1])
    /\ JsonlRecords[2] = city_properties[Me][2]

\* A detail fetch of the task is under way (its first attempt included).
InDetailFetch(w) == wpc[w] = "save" /\ fpc[w] = "loop"

\* C21: with details enabled and no failed open, while the detail fetch of
\* record i is under way the records 1..i-1 are in both files, and a task
\* that has stopped between two records, by returning or by raising, has
\* appended as many records as it has made detail fetches.
C21_WriteThrough ==
    (enable_details /\ io_failures = 0) =>
        /\ InDetailFetch(Me) =>
              /\ is_detail[Me]
              /\ Len(JsonlRecords) = idx[Me] - 1
              /\ Len(CsvRows) = idx[Me] - 1
              /\ UrlSeq(JsonlRecords) = UrlSeq(SubSeq(city_properties[Me], 1, idx[Me] - 1))
        /\ (wpc[Me] \in {"returned", "failed"} /\ idx[Me] > 0) =>
              /\ Len(JsonlRecords) = idx[Me] - 1
              /\ Len(CsvRows) = idx[Me] - 1

\* C21 witness: the task raised after the detail fetch and the append of
\* its first record, with a second record still to come.
C21_Witness ==
    /\ enable_details
    /\ io_failures = 0
    /\ wpc[Me] = "failed"
    /\ idx[Me] = 2
    /\ Len(city_properties[Me]) >= 2
    /\ Len(JsonlRecords) = 1
    /\ Len(CsvRows) = 1

\* The URLs of the pages of a log in the order of discovery: page after
\* page, and within a page from its top down.
RECURSIVE Discovered(_)
Discovered(log) == IF log = <<>> THEN <<>> ELSE Head(log).new \o Discovered(Tail(log))

\* The task is appending a record to the output files.
Appending(w) ==
    wpc[w] \notin {"unsubmitted", "queued", "paginate", "save", "returned", "failed"}

\* C30: the accumulated records are in the order of discovery; while a
\* detail fetch is under way no listing fetch is running and the list is
\* complete, the fetch is that of the record at idx, and idx goes up one by
\* one from 1; the record being appended is the one at idx, and with no
\* failed open the files hold the records before it, in that order.
C30_DiscoveryOrder ==
    /\ [](/\ UrlSeq(city_properties[Me]) = Discovered(page_log[Me])
          /\ InDetailFetch(Me) =>
                /\ \A i \in 1..Len(fetch_log[Me]) : fetch_log[Me][i].res # "pending"
                /\ idx[Me] \in 1..Len(city_properties[Me])
          /\ Appending(Me) =>
                /\ idx[Me] \in 1..Len(city_properties[Me])
                /\ merged[Me].url = Discovered(page_log[Me])[idx[Me]]
          /\ (io_failures = 0 /\ (InDetailFetch(Me) \/ Appending(Me))) =>
                /\ UrlSeq(JsonlRecords)
                      = SubSeq(Discovered(page_log[Me]), 1, Len(JsonlRecords))
                /\ UrlSeq(CsvRows)
                      = SubSeq(Discovered(page_log[Me]), 1, Len(CsvRows))
                /\ Len(JsonlRecords) \in {idx[Me] - 1, idx[Me]}
                /\ Len(CsvRows) = idx[Me] - 1)
    /\ [][/\ wpc[Me] # "paginate" => city_properties'[Me] = city_properties[Me]
          /\ idx'[Me] # idx[Me] =>
                \/ wpc[Me] = "paginate" /\ idx'[Me] = 1
                \/ wpc[Me] # "paginate" /\ idx'[Me] = idx[Me] + 1]_vars

\* C30 witness: two pages gave three records between them, with details
\* enabled; the first two are in the files in the order of discovery and
\* the detail fetch of the third is under way.
C30_Witness ==
    /\ enable_details
    /\ io_failures = 0
    /\ InDetailFetch(Me)
    /\ Len(page_log[Me]) = 2
    /\ Len(page_log[Me][1].new) = 2
    /\ Len(page_log[Me][2].new) = 1
    /\ idx[Me] = 3
    /\ UrlSeq(JsonlRecords) = page_log[Me][1].new
    /\ UrlSeq(CsvRows) = page_log[Me][1].new

\* The number of records of city c in the JSONL file.
RecordsOf(c) ==
    Cardinality({k \in 1..Len(jsonl_file.data) :
                    IsRec(jsonl_file.data[k]) /\ jsonl_file.data[k].w = c})

\* C33: when the run has returned, the count in every city's entry of the
\* summary is the number of that city's records in the JSONL file, and
\* the total returned is the number of records in the file.
C33_CountIsRecordsWritten ==
    opc = "returned" =>
        /\ \A i \in 1..Len(city_results) :
              city_results[i].total = RecordsOf(city_results[i].city)
        /\ total_properties = Len(JsonlRecords)

(***************************************************************************)
(* Properties of the sequential run (SeqSpec)                              *)
(***************************************************************************)
UrlSet(recs) == {recs[i].url : i \in 1..Len(recs)}

\* The city the code is working on.
Current(c) == wpc[c] \notin {"unsubmitted", "queued", "returned", "failed"}

\* C22: the seen-URL set consulted while working on a city holds only URLs
\* met on that city's pages, and every URL met on a city's pages has a
\* record in that city's list, whatever the other cities have recorded.
C22_DedupPerTarget ==
    \A c \in Cities :
        Current(c) =>
            /\ seen_urls[ScraperOf(c)] \subseteq UrlsOf(page_log[c])
            /\ UrlSet(city_properties[c]) = UrlsOf(page_log[c])

\* How often the file holds a token of kind t of city c for the URL u.
TimesIn(f, t, c, u) ==
    Cardinality({k \in 1..Len(f.data) :
                    /\ f.data[k].t = t
                    /\ f.data[k].w = c
                    /\ f.data[k].rec.url = u})

\* The number of records accumulated for the cities 1..n.
RECURSIVE Accumulated(_)
Accumulated(n) == IF n = 0 THEN 0 ELSE Len(city_properties[n]) + Accumulated(n - 1)

\* C34: with no failed open, once the work on a city is over every record
\* of its list is once in the JSONL file and once in the CSV file, with
\* details and without, and it has been counted: by the task in
\* properties_saved, by the sequential run in its total.
C34_EveryRecordAppendedOnce ==
    io_failures = 0 =>
        /\ \A c \in Cities :
              wpc[c] = "returned" =>
                  /\ \A i \in 1..Len(city_properties[c]) :
                        /\ TimesIn(jsonl_file, "rec", c, city_properties[c][i].url) = 1
                        /\ TimesIn(csv_file, "row", c, city_properties[c][i].url) = 1
                  /\ ~Sequential => properties_saved[c] = Len(city_properties[c])
        /\ opc = "seq_returned" => total_properties = Accumulated(NumCities)

(***************************************************************************)
(* Properties of the service (ServiceSpec)                                 *)
(***************************************************************************)
\* The threads that are inside scrape_infinite_parallel.
RunsActive == {t \in Threads : Scraping(t)}

\* Thread t unlinks the output files in this step.
Clears(t) == spc[t] = "scrape_clear" /\ spc'[t] = "scrape_run"

\* C35: at no time are two threads of the service inside the scraper, and
\* when a run unlinks the output files they hold no record of another run
\* that is still going on.
C35_OneScraperRunAtATime ==
    /\ [](Cardinality(RunsActive) <= 1)
    /\ [][\A t \in Threads :
             Clears(t) => \A u \in RunsActive \ {t} : RunRecords(u) = {}]_vars

\* No call of load_models or run_model_retraining is under way.
NoCallUnderWay == \A t \in Threads : ~Retraining(t) /\ ~Loading(t)

\* C36: between the calls of load_models and run_model_retraining, when
\* model_rf is set (the health endpoint says OK and the data endpoints let
\* the request through), the encoders and market_data are set too.
C36_ModelSetImpliesRestSet ==
    (NoCallUnderWay /\ model_rf # NoModel) =>
        /\ le_location # Nothing
        /\ le_ptype # Nothing
        /\ market_data # Nothing

\* A call of run_model_retraining by thread t has returned, and the
\* thread has not gone on since.
BackFromRetraining(t) ==
    \/ t = "weekly" /\ spc[t] = "ld_model"
    \/ t = "retrain" /\ spc[t] = "idle" /\ admin_req[t].status \in {200, 500}

\* C37: a call of run_model_retraining that has returned False has
\* assigned none of the globals model_rf, le_location, le_ptype,
\* market_data and last_update_time.
C37_FailedRetrainingLeavesState ==
    \A t \in Threads :
        (BackFromRetraining(t) /\ rv[t] = "false") => assigned[t] = {}

\* What a weekly update can do from its start to its end: the scraper
\* raises and the exception is caught; or the scraper returns, retraining
\* is called and returns True or False, load_models is called and returns,
\* and the job ends.
WeeklyCourses ==
    {<<"scraper", "scraper_raised", "caught">>} \cup
    {<<"scraper", "scraper_returned", "retrain", r, "load", "load_returned", "end">> :
        r \in {"retrain_true", "retrain_false"}}

IsPrefixOf(a, b) == Len(a) <= Len(b) /\ a = SubSeq(b, 1, Len(a))

\* What the weekly job is doing, by what it did last.
WeeklyAt(last) ==
    CASE last = "scraper" -> Scraping("weekly")
      [] last = "retrain" -> Retraining("weekly")
      [] last = "load" -> Loading("weekly")
      [] OTHER -> spc["weekly"] = "idle"

\* C38: the weekly update goes through scraper, retraining and reload in
\* this order, each starting when the one before has returned; the reload
\* follows retraining whatever it returned; when the scraper raises the
\* job ends there, with the exception caught; and the thread is inside
\* the function that the record says was called last.
C38_WeeklyStepsInOrder ==
    /\ \E course \in WeeklyCourses : IsPrefixOf(trace, course)
    /\ trace # <<>> => WeeklyAt(trace[Len(trace)])
    /\ trace = <<>> => spc["weekly"] = "idle"

\* C38 witness: retraining has returned False in a weekly update and
\* load_models is running.
C38_Witness ==
    /\ trace = <<"scraper", "scraper_returned", "retrain", "retrain_false", "load">>
    /\ Loading("weekly")
    /\ rv["weekly"] = "false"

\* The request threads of the admin endpoints.
AdminThreads == {"trigger", "retrain"}

\* A call of the endpoint of thread t arrives in this step.
Called(t) == spc[t] = "idle" /\ admin_req'[t] # admin_req[t]

\* C39: a call of an admin endpoint whose X-API-Key header is missing or is
\* not the admin key is answered 403 and changes nothing: no job is
\* started, and the globals, the pickle files and the output files stay
\* as they are; a thread that is working for an endpoint was let in with
\* the admin key.
C39_BadKeyRejectedNoEffect ==
    /\ [](\A t \in AdminThreads : spc[t] # "idle" => admin_req[t].key = ADMIN_KEY)
    /\ [][\A t \in AdminThreads :
             (Called(t) /\ admin_req'[t].key # ADMIN_KEY) =>
                 /\ admin_req'[t].status = 403
                 /\ UNCHANGED <<gvars, diskvars, tvars, assigned, trace, filevars>>]_vars

\* C39 witness: with a model loaded, a call of trigger-scraper without the
\* header and a call of retrain-model with another key have been answered
\* 403, and nothing but the startup has run.
C39_Witness ==
    /\ admin_req["trigger"] = AdminReq("trigger-scraper", NoKey, 403)
    /\ admin_req["retrain"] = AdminReq("retrain-model", "other-key", 403)
    /\ njobs = 1
    /\ model_rf = [gen |-> Shipped, fitted |-> TRUE]
    /\ \A t \in AdminThreads : spc[t] = "idle"

(***************************************************************************)
(* Properties of the merge (MergeSpec)                                     *)
(***************************************************************************)

\* C20: the merged record has, for every key, the value of the detail dict
\* when that dict has the key and the value of the listing record
\* otherwise; its url is the listing URL.
C20_DetailWinsUrlKept ==
    merged_fields # Unset =>
        /\ \A k \in Keys :
              merged_fields[k] = IF detail_fields[k] # Absent
                                 THEN detail_fields[k]
                                 ELSE prop_fields[k]
        /\ merged_fields["url"] = prop_fields["url"]

\* C20 witness: a merge in which the detail dict had another bhk and title
\* than the listing record and a price, and no scraped_at.
C20_Witness ==
    /\ merged_fields # Unset
    /\ prop_fields["bhk"] \notin {Absent, detail_fields["bhk"]}
    /\ detail_fields["bhk"] # Absent
    /\ detail_fields["title"] \notin {Absent, prop_fields["title"]}
    /\ detail_fields["price"] # Absent
    /\ detail_fields["scraped_at"] = Absent
    /\ merged_fields["scraped_at"] = prop_fields["scraped_at"]
    /\ merged_fields["bhk"] = detail_fields["bhk"]

====
